---- MODULE Spec2Model ----
(***************************************************************************)
(* Model of the tickisinator identifier store (db.ts): the securities      *)
(* table, the four identifier tables, insertSecurity and the three         *)
(* lookups.  Tables are sequences in rowid order: an INSERT appends, an    *)
(* ON CONFLICT ... DO UPDATE rewrites the row where it stands.             *)
(* On top of the store: the CUSIP-to-ISIN arithmetic (isin.ts) and the     *)
(* per-designator resolution of main.ts (processDesignator) with the FMP   *)
(* client (apis/fmp.ts) as its external resolver.                          *)
(*                                                                         *)
(* Three specifications share the state:                                   *)
(*   Spec        insertSecurity alone, over well-typed records;            *)
(*   StoreSpec   insertSecurity, also with the exchange left out, and the  *)
(*               three lookups as calls;                                   *)
(*   EngineSpec  processDesignator from an empty database.                 *)
(***************************************************************************)
EXTENDS Integers, Sequences, FiniteSets, TLC

\* JavaScript undefined / null and SQL NULL: an optional field that is absent.
NULL == "null"

\* ---------------------------------------------------------------- bounds
\* Number of insertSecurity calls explored from the empty database.
MaxCalls == 3

\* ---------------------------------------------------------------- inputs
\* The (ticker, exchange) pairs on offer: one ticker listed on two exchanges and
\* a second ticker sharing one of them.
Listings ==
  { [ticker |-> "EXM", exchange |-> "NYSE"],
    [ticker |-> "EXM", exchange |-> "LSE"],
    [ticker |-> "AAPL", exchange |-> "NYSE"] }
Isins == {"US0378331005", "US5949181045"}
Cusips == {"037833100"}

\* The fields no probe reads travel together, in two representative bundles.
Payloads ==
  { [name |-> "Example Corp", source |-> "test", cik |-> NULL,
     security_type |-> NULL, market_sector |-> NULL],
    [name |-> "Apple Inc.", source |-> "fmp", cik |-> "0000320193",
     security_type |-> "stock", market_sector |-> "Technology"] }

Opt(S) == S \cup {NULL}

\* interface SecurityData (figi is declared but never read by the store).
SecurityData ==
  { [name |-> p.name, ticker |-> l.ticker, exchange |-> l.exchange, isin |-> i,
     cusip |-> c, cik |-> p.cik, source |-> p.source,
     security_type |-> p.security_type, market_sector |-> p.market_sector] :
      l \in Listings, i \in Opt(Isins), c \in Opt(Cusips), p \in Payloads }

NoSecurity ==
  [name |-> NULL, ticker |-> NULL, exchange |-> NULL, isin |-> NULL,
   cusip |-> NULL, cik |-> NULL, source |-> NULL, security_type |-> NULL,
   market_sector |-> NULL]

\* What reaches insertSecurity at run time: `exchange: string` is checked by the
\* compiler only, and a record built from parsed JSON may leave it out.  One
\* ticker, on two exchanges or on none, in three sightings: ticker only; with
\* an ISIN and full descriptive fields; with ISIN and CUSIP.
UncheckedSecurityData ==
  { [name |-> k.name, ticker |-> "EXM", exchange |-> x, isin |-> k.isin,
     cusip |-> k.cusip, cik |-> k.cik, source |-> k.source,
     security_type |-> k.security_type, market_sector |-> k.market_sector] :
      x \in Opt({"NYSE", "LSE"}),
      k \in { [name |-> "Example Corp", isin |-> NULL, cusip |-> NULL,
               cik |-> NULL, source |-> "test", security_type |-> NULL,
               market_sector |-> NULL],
              [name |-> "Apple Inc.", isin |-> "US0378331005", cusip |-> NULL,
               cik |-> "0000320193", source |-> "fmp",
               security_type |-> "stock", market_sector |-> "Technology"],
              [name |-> "Apple Inc. (updated)", isin |-> "US0378331005",
               cusip |-> "037833100", cik |-> NULL, source |-> "test",
               security_type |-> NULL, market_sector |-> NULL] } }

\* The keys lookups are called with: stored ones and ones never stored.
LookupTickers == {"EXM", "NOTFOUND"}
LookupExchanges == {"NYSE", "LSE"}
LookupIsins == {"US0378331005", "US0000000000"}
LookupCusips == {"037833100", "88160R101"}

\* ------------------------------------------------- external resolver, input
\* What the designators of a batch ask for, parsed and validated.
QueryTickers == {"AAPL", "TSLA"}
QueryIsins == {"US0378331005", "US88160R1014"}
QueryCusips == {"037833100", "88160R101"}

\* FMP_API_KEY: unset, blank, or set.
ApiKeys == {"", " ", "test-api-key"}

NoProfile ==
  [symbol |-> NULL, companyName |-> NULL, exchange |-> NULL, isin |-> NULL,
   cusip |-> NULL, cik |-> NULL, sector |-> NULL]

\* interface FmpProfileResponse: what /stable/profile?symbol=ticker may hold for
\* that symbol.  The identifiers are whatever the provider has on file: none,
\* the right ones, or those of another company.
FmpProfiles(ticker) ==
  { [symbol |-> ticker,
     companyName |-> IF ticker = "AAPL" THEN "Apple Inc." ELSE "Tesla, Inc.",
     exchange |-> "NASDAQ", isin |-> i, cusip |-> c, cik |-> "0000320193",
     sector |-> "Technology"] :
      i \in Opt(QueryIsins), c \in Opt(QueryCusips) }

\* A JSON value where a string is expected: absent, a string, or a number.
Undefined == [type |-> "undefined", text |-> NULL]
JsonString(text) == [type |-> "string", text |-> text]
JsonNumber == [type |-> "number", text |-> "429"]

\* text.includes(needle), for the texts the answers hold.
Includes(text, needle) ==
  \/ text = needle
  \/ <<text, needle>> \in
       {<<"Limit Reach. You have exceeded the rate limit.", "rate limit">>,
        <<"Invalid API KEY. Please retry or visit our documentation.",
          "Invalid API KEY">>}

\* An element of the array in a body: null, a number, or an object, with its
\* `message` and the fields of a profile it holds.
JsonNull == [kind |-> "null", message |-> Undefined, profile |-> NoProfile]
JsonNumberElement ==
  [kind |-> "number", message |-> Undefined, profile |-> NoProfile]
JsonObject(message, profile) ==
  [kind |-> "object", message |-> message, profile |-> profile]

\* A response body: not JSON, null, an object with its "Error Message", or an
\* array.
NotJson == [kind |-> "invalid", errorMessage |-> Undefined, elements |-> <<>>]
NullBody == [kind |-> "null", errorMessage |-> Undefined, elements |-> <<>>]
ObjectBody(errorMessage) ==
  [kind |-> "object", errorMessage |-> errorMessage, elements |-> <<>>]
ArrayBody(elements) ==
  [kind |-> "array", errorMessage |-> Undefined, elements |-> elements]

\* fetch() did not run.
NoAnswer == [rejects |-> "no", status |-> 0, body |-> NotJson]

\* fetch(url) rejects, with a TypeError or with something else.
FetchRejections ==
  {[rejects |-> "TypeError", status |-> 0, body |-> NotJson],
   [rejects |-> "Error", status |-> 0, body |-> NotJson]}

\* fetch(url) resolves with a status that is not ok.
HttpErrors ==
  {[rejects |-> "no", status |-> 429,
    body |-> ObjectBody(JsonString("Limit Reach. You have exceeded the rate limit."))],
   [rejects |-> "no", status |-> 401,
    body |-> ObjectBody(JsonString("Invalid API KEY. Please retry or visit our documentation."))],
   [rejects |-> "no", status |-> 401, body |-> ObjectBody(JsonNumber)],
   [rejects |-> "no", status |-> 401, body |-> NotJson],
   [rejects |-> "no", status |-> 403, body |-> ObjectBody(Undefined)],
   [rejects |-> "no", status |-> 403, body |-> NullBody],
   [rejects |-> "no", status |-> 500, body |-> NotJson],
   [rejects |-> "no", status |-> 404, body |-> ObjectBody(Undefined)]}

\* fetch(url) resolves with status 200 and a body that holds no profile.
EmptyAnswers ==
  {[rejects |-> "no", status |-> 200, body |-> b] :
     b \in {NotJson, NullBody, ObjectBody(Undefined), ArrayBody(<<>>),
            ArrayBody(<<JsonObject(
              JsonString("Limit Reach. You have exceeded the rate limit."),
              NoProfile)>>),
            ArrayBody(<<JsonObject(
              JsonString("Limit Reach. You have exceeded the rate limit."),
              NoProfile),
              JsonNull>>),
            ArrayBody(<<JsonObject(JsonString("Limit Reach"), NoProfile)>>),
            ArrayBody(<<JsonObject(JsonNumber, NoProfile)>>),
            ArrayBody(<<JsonNull>>),
            ArrayBody(<<JsonNumberElement>>)}}

\* What fetch(url) may come back with: a rejection, an HTTP error status, or
\* 200 with a body: one without a profile, or the array with the profile.
FmpAnswers(ticker) ==
  FetchRejections \cup HttpErrors \cup EmptyAnswers
  \cup { [rejects |-> "no", status |-> 200,
          body |-> ArrayBody(<<JsonObject(Undefined, p)>>)] :
           p \in FmpProfiles(ticker) }

\* The answers the queries of the engine are run against: one of each way
\* fetchTickerProfile throws, and every profile.
EngineAnswers(ticker) ==
  { a \in FmpAnswers(ticker) :
      \/ a.rejects = "TypeError"
      \/ a.status \in {429, 500}
      \/ a.status = 401 /\ a.body = ObjectBody(JsonNumber)
      \/ a.status = 200 /\ a.body.kind = "array"
           /\ \/ Len(a.body.elements) = 0
              \/ /\ Len(a.body.elements) = 1
                 /\ a.body.elements[1].kind # "number"
                 /\ a.body.elements[1].message.type # "number"
                 /\ a.body.elements[1].message.text # "Limit Reach" }

\* The lines of a batch: a ticker, an ISIN and a CUSIP of one company, and a
\* line without a colon, which parseDesignator rejects.
BatchDesignators ==
  {[type |-> "ticker", value |-> "AAPL"],
   [type |-> "isin", value |-> "US0378331005"],
   [type |-> "cusip", value |-> "037833100"],
   [type |-> "invalid", value |-> "AAPL"]}

\* A batch holds up to as many lines as insertSecurity may be called.
MaxBatch == MaxCalls

Batches == UNION { [1..n -> BatchDesignators] : n \in 1..MaxBatch }

\* The answers the designators of a batch are run against: the profile with
\* the company's identifiers, the rate limit, a network error, no profile, and
\* the two arrays whose element is not a profile.
BatchAnswers(designator) ==
  IF designator.type # "ticker" THEN {NoAnswer}
  ELSE { a \in FmpAnswers(designator.value) :
           \/ a.rejects = "TypeError"
           \/ a.status = 429
           \/ /\ a.status = 200 /\ a.body.kind = "array"
              /\ \/ Len(a.body.elements) = 0
                 \/ /\ Len(a.body.elements) = 1
                    /\ a.body.elements[1].kind # "object"
                 \/ /\ Len(a.body.elements) = 1
                    /\ a.body.elements[1].profile.isin = "US0378331005"
                    /\ a.body.elements[1].profile.cusip = "037833100" }

\* -------------------------------------------------------- identifier math
\* isin.ts works on the characters of a string: a string is spelled out as
\* the sequence of its characters, for the identifiers the model handles.
Chars(text) ==
  CASE text = "037833100" -> <<"0", "3", "7", "8", "3", "3", "1", "0", "0">>
    [] text = "88160R101" -> <<"8", "8", "1", "6", "0", "R", "1", "0", "1">>
    [] text = "594918104" -> <<"5", "9", "4", "9", "1", "8", "1", "0", "4">>
    [] text = "US0378331005" ->
         <<"U", "S", "0", "3", "7", "8", "3", "3", "1", "0", "0", "5">>
    [] text = "US88160R1014" ->
         <<"U", "S", "8", "8", "1", "6", "0", "R", "1", "0", "1", "4">>
    [] text = "US5949181045" ->
         <<"U", "S", "5", "9", "4", "9", "1", "8", "1", "0", "4", "5">>
    [] OTHER -> <<>>

Spelled ==
  {"037833100", "88160R101", "594918104", "US0378331005", "US88160R1014",
   "US5949181045"}

\* The string a sequence of characters makes up; one outside the model's
\* identifiers is shown by a placeholder that equals none of them.
Text(chars) ==
  IF \E t \in Spelled : Chars(t) = chars
    THEN CHOOSE t \in Spelled : Chars(t) = chars
    ELSE "US?????????-"

DigitChars == <<"0", "1", "2", "3", "4", "5", "6", "7", "8", "9">>
UpperChars ==
  <<"A", "B", "C", "D", "E", "F", "G", "H", "I", "J", "K", "L", "M", "N", "O",
    "P", "Q", "R", "S", "T", "U", "V", "W", "X", "Y", "Z">>
LowerChars ==
  <<"a", "b", "c", "d", "e", "f", "g", "h", "i", "j", "k", "l", "m", "n", "o",
    "p", "q", "r", "s", "t", "u", "v", "w", "x", "y", "z">>

\* Position of a character in one of the three alphabets, 0 if it is not in it.
IndexOf(alphabet, char) ==
  IF \E i \in 1..Len(alphabet) : alphabet[i] = char
    THEN CHOOSE i \in 1..Len(alphabet) : alphabet[i] = char
    ELSE 0

\* A function that threw: no value, and the Error's message.
Thrown(message) == [ok |-> FALSE, digit |-> 0, value |-> <<>>, error |-> message]

\* Variant: a lowercase letter counts as its uppercase letter.
Numerals_AnyCase(char) ==
  IF IndexOf(UpperChars, char) # 0 \/ IndexOf(LowerChars, char) # 0
    THEN LET n == IndexOf(UpperChars, char) + IndexOf(LowerChars, char) - 1 + 10
         IN <<n \div 10, n % 10>>
  ELSE IF IndexOf(DigitChars, char) # 0
    THEN <<IndexOf(DigitChars, char) - 1>>
  ELSE <<>>

\* The decimal digits a character of the base turns into: a letter A..Z gives
\* the two digits of 10..35, a digit itself, anything else none (it throws).
Numerals(char) ==
  IF IndexOf(UpperChars, char) # 0
    THEN LET n == IndexOf(UpperChars, char) - 1 + 10
         IN <<n \div 10, n % 10>>
  ELSE IF IndexOf(DigitChars, char) # 0
    THEN <<IndexOf(DigitChars, char) - 1>>
  ELSE <<>>

\* numericString.split("").map(Number)
NumericDigits(base) ==
  LET upTo[i \in 0..Len(base)] ==
        IF i = 0 THEN <<>> ELSE upTo[i - 1] \o Numerals(base[i])
  IN upTo[Len(base)]

\* Variant: the doubling starts at the second digit from the right.
LuhnSum_DoubleEven(digits) ==
  LET term(k) ==
        LET positionFromRight == Len(digits) - k + 1
            doubled == digits[k] * 2
        IN IF positionFromRight % 2 = 0
             THEN IF doubled > 9 THEN (doubled \div 10) + (doubled % 10)
                  ELSE doubled
             ELSE digits[k]
      sum[k \in 0..Len(digits)] == IF k = 0 THEN 0 ELSE sum[k - 1] + term(k)
  IN sum[Len(digits)]

\* The loop over the digits: every digit at an odd position from the right is
\* doubled, and a doubled value above 9 replaced by the sum of its digits.
LuhnSum(digits) ==
  LET term(k) ==
        LET positionFromRight == Len(digits) - k + 1
            doubled == digits[k] * 2
        IN IF positionFromRight % 2 = 1
             THEN IF doubled > 9 THEN (doubled \div 10) + (doubled % 10)
                  ELSE doubled
             ELSE digits[k]
      sum[k \in 0..Len(digits)] == IF k = 0 THEN 0 ELSE sum[k - 1] + term(k)
  IN sum[Len(digits)]

\* Variant: the last "% 10" is left out.
computeIsinCheckDigit_NoFinalMod(base) ==
  IF Len(base) # 11
    THEN Thrown("Base must be exactly 11 characters (country code + NSIN)")
  ELSE IF \E i \in 1..Len(base) : Numerals(base[i]) = <<>>
    THEN Thrown("Invalid character in ISIN")
  ELSE [ok |-> TRUE,
        digit |-> 10 - (LuhnSum(NumericDigits(base)) % 10),
        value |-> <<>>, error |-> NULL]

computeIsinCheckDigit(base) ==
  IF Len(base) # 11
    THEN Thrown("Base must be exactly 11 characters (country code + NSIN)")
  ELSE IF \E i \in 1..Len(base) : Numerals(base[i]) = <<>>
    THEN Thrown("Invalid character in ISIN")
  ELSE [ok |-> TRUE,
        digit |-> (10 - (LuhnSum(NumericDigits(base)) % 10)) % 10,
        value |-> <<>>, error |-> NULL]

\* cusip.toUpperCase(), character by character.
ToUpperCase(chars) ==
  [i \in 1..Len(chars) |->
     IF IndexOf(LowerChars, chars[i]) # 0
       THEN UpperChars[IndexOf(LowerChars, chars[i])]
       ELSE chars[i]]

\* Variant: the CUSIP is used as it was typed.
cusipToIsin_NoUpper(cusip) ==
  IF Len(cusip) # 9
    THEN Thrown("CUSIP must be exactly 9 characters")
  ELSE IF \E i \in 1..Len(cusip) :
            /\ IndexOf(UpperChars, cusip[i]) = 0
            /\ IndexOf(LowerChars, cusip[i]) = 0
            /\ IndexOf(DigitChars, cusip[i]) = 0
    THEN Thrown("CUSIP contains invalid characters")
  ELSE LET normalizedCusip == cusip
           base == <<"U", "S">> \o normalizedCusip
           checkDigit == computeIsinCheckDigit(base)
       IN IF ~checkDigit.ok THEN checkDigit
          ELSE [ok |-> TRUE, digit |-> checkDigit.digit,
                value |-> base \o <<DigitChars[checkDigit.digit + 1]>>,
                error |-> NULL]

\* Variant: the check digit is appended to the CUSIP as it was typed.
cusipToIsin_KeepCase(cusip) ==
  IF Len(cusip) # 9
    THEN Thrown("CUSIP must be exactly 9 characters")
  ELSE IF \E i \in 1..Len(cusip) :
            /\ IndexOf(UpperChars, cusip[i]) = 0
            /\ IndexOf(LowerChars, cusip[i]) = 0
            /\ IndexOf(DigitChars, cusip[i]) = 0
    THEN Thrown("CUSIP contains invalid characters")
  ELSE LET normalizedCusip == ToUpperCase(cusip)
           base == <<"U", "S">> \o normalizedCusip
           checkDigit == computeIsinCheckDigit(base)
       IN IF ~checkDigit.ok THEN checkDigit
          ELSE [ok |-> TRUE, digit |-> checkDigit.digit,
                value |-> <<"U", "S">> \o cusip \o <<DigitChars[checkDigit.digit + 1]>>,
                error |-> NULL]

\* Variant: the characters are checked before the length.
cusipToIsin_CharsFirst(cusip) ==
  IF \E i \in 1..Len(cusip) :
       /\ IndexOf(UpperChars, cusip[i]) = 0
       /\ IndexOf(LowerChars, cusip[i]) = 0
       /\ IndexOf(DigitChars, cusip[i]) = 0
    THEN Thrown("CUSIP contains invalid characters")
  ELSE IF Len(cusip) # 9
    THEN Thrown("CUSIP must be exactly 9 characters")
  ELSE LET normalizedCusip == ToUpperCase(cusip)
           base == <<"U", "S">> \o normalizedCusip
           checkDigit == computeIsinCheckDigit(base)
       IN IF ~checkDigit.ok THEN checkDigit
          ELSE [ok |-> TRUE, digit |-> checkDigit.digit,
                value |-> base \o <<DigitChars[checkDigit.digit + 1]>>,
                error |-> NULL]

\* cusipToIsin(cusip): length, characters (/^[A-Z0-9]+$/i), "US" + upper-cased
\* CUSIP + check digit.
cusipToIsin(cusip) ==
  IF Len(cusip) # 9
    THEN Thrown("CUSIP must be exactly 9 characters")
  ELSE IF \E i \in 1..Len(cusip) :
            /\ IndexOf(UpperChars, cusip[i]) = 0
            /\ IndexOf(LowerChars, cusip[i]) = 0
            /\ IndexOf(DigitChars, cusip[i]) = 0
    THEN Thrown("CUSIP contains invalid characters")
  ELSE LET normalizedCusip == ToUpperCase(cusip)
           base == <<"U", "S">> \o normalizedCusip
           checkDigit == computeIsinCheckDigit(base)
       IN IF ~checkDigit.ok THEN checkDigit
          ELSE [ok |-> TRUE, digit |-> checkDigit.digit,
                value |-> base \o <<DigitChars[checkDigit.digit + 1]>>,
                error |-> NULL]

\* What validateIsin returns: an IsinValidationResult.
Invalid(message) ==
  [ok |-> TRUE, valid |-> FALSE, digit |-> 0, value |-> <<>>, error |-> message]

\* Variant: computeIsinCheckDigit is called outside the try block.
validateIsin_NoTry(isin) ==
  IF Len(isin) # 12
    THEN Invalid("ISIN must be exactly 12 characters")
  ELSE IF \/ IndexOf(UpperChars, isin[1]) = 0
          \/ IndexOf(UpperChars, isin[2]) = 0
    THEN Invalid("ISIN must start with 2 uppercase letters (country code)")
  ELSE IF IndexOf(DigitChars, isin[12]) = 0
    THEN Invalid("Check digit must be a number")
  ELSE LET base == SubSeq(isin, 1, 11)
           providedCheckDigit == IndexOf(DigitChars, isin[12]) - 1
           computedCheckDigit == computeIsinCheckDigit(base)
       IN IF ~computedCheckDigit.ok
            THEN [ok |-> FALSE, valid |-> FALSE, digit |-> 0, value |-> <<>>,
                  error |-> computedCheckDigit.error]
          ELSE IF computedCheckDigit.digit # providedCheckDigit
            THEN Invalid("Invalid check digit")
          ELSE [ok |-> TRUE, valid |-> TRUE, digit |-> 0, value |-> <<>>,
                error |-> NULL]

\* Variant: the check digit is looked at before the country code.
validateIsin_DigitFirst(isin) ==
  IF Len(isin) # 12
    THEN Invalid("ISIN must be exactly 12 characters")
  ELSE IF IndexOf(DigitChars, isin[12]) = 0
    THEN Invalid("Check digit must be a number")
  ELSE IF \/ IndexOf(UpperChars, isin[1]) = 0
          \/ IndexOf(UpperChars, isin[2]) = 0
    THEN Invalid("ISIN must start with 2 uppercase letters (country code)")
  ELSE LET base == SubSeq(isin, 1, 11)
           providedCheckDigit == IndexOf(DigitChars, isin[12]) - 1
           computedCheckDigit == computeIsinCheckDigit(base)
       IN IF ~computedCheckDigit.ok
            THEN Invalid(computedCheckDigit.error)
          ELSE IF computedCheckDigit.digit # providedCheckDigit
            THEN Invalid("Invalid check digit")
          ELSE [ok |-> TRUE, valid |-> TRUE, digit |-> 0, value |-> <<>>,
                error |-> NULL]

\* Variant: the check digits are compared modulo 5.
validateIsin_Mod5(isin) ==
  IF Len(isin) # 12
    THEN Invalid("ISIN must be exactly 12 characters")
  ELSE IF \/ IndexOf(UpperChars, isin[1]) = 0
          \/ IndexOf(UpperChars, isin[2]) = 0
    THEN Invalid("ISIN must start with 2 uppercase letters (country code)")
  ELSE IF IndexOf(DigitChars, isin[12]) = 0
    THEN Invalid("Check digit must be a number")
  ELSE LET base == SubSeq(isin, 1, 11)
           providedCheckDigit == IndexOf(DigitChars, isin[12]) - 1
           computedCheckDigit == computeIsinCheckDigit(base)
       IN IF ~computedCheckDigit.ok
            THEN Invalid(computedCheckDigit.error)
          ELSE IF computedCheckDigit.digit % 5 # providedCheckDigit % 5
            THEN Invalid("Invalid check digit")
          ELSE [ok |-> TRUE, valid |-> TRUE, digit |-> 0, value |-> <<>>,
                error |-> NULL]

\* validateIsin(isin): length, country code, check digit a number, check digit
\* the computed one; what computeIsinCheckDigit throws is caught and returned
\* as the reason.  parseInt(isin[11], 10) is NaN unless that character is one
\* of 0..9.
validateIsin(isin) ==
  IF Len(isin) # 12
    THEN Invalid("ISIN must be exactly 12 characters")
  ELSE IF \/ IndexOf(UpperChars, isin[1]) = 0
          \/ IndexOf(UpperChars, isin[2]) = 0
    THEN Invalid("ISIN must start with 2 uppercase letters (country code)")
  ELSE IF IndexOf(DigitChars, isin[12]) = 0
    THEN Invalid("Check digit must be a number")
  ELSE LET base == SubSeq(isin, 1, 11)
           providedCheckDigit == IndexOf(DigitChars, isin[12]) - 1
           computedCheckDigit == computeIsinCheckDigit(base)
       IN IF ~computedCheckDigit.ok
            THEN Invalid(computedCheckDigit.error)
          ELSE IF computedCheckDigit.digit # providedCheckDigit
            THEN Invalid("Invalid check digit")
          ELSE [ok |-> TRUE, valid |-> TRUE, digit |-> 0, value |-> <<>>,
                error |-> NULL]

\* ------------------------------------------------------------------ cli.ts
\* input.trim(), with the space as the white space.
Trim(chars) ==
  LET inked == {i \in 1..Len(chars) : chars[i] # " "}
  IN IF inked = {} THEN <<>>
     ELSE SubSeq(chars, CHOOSE i \in inked : \A j \in inked : i <= j,
                        CHOOSE i \in inked : \A j \in inked : i >= j)

\* type.toLowerCase(), character by character.
ToLowerCase(chars) ==
  [i \in 1..Len(chars) |->
     IF IndexOf(UpperChars, chars[i]) # 0
       THEN LowerChars[IndexOf(UpperChars, chars[i])]
       ELSE chars[i]]

\* trimmed.indexOf(":"), counted from 1: 0 if there is no colon.
ColonIndex(chars) ==
  IF \E i \in 1..Len(chars) : chars[i] = ":"
    THEN CHOOSE i \in 1..Len(chars) :
           chars[i] = ":" /\ \A j \in 1..(i - 1) : chars[j] # ":"
    ELSE 0

validTypes == <<<<"t", "i", "c", "k", "e", "r">>, <<"i", "s", "i", "n">>, <<"c", "u", "s", "i", "p">>>>

\* A thrown CliError, by the fixed part of its message.
CliError(message) ==
  [ok |-> FALSE, type |-> <<>>, value |-> <<>>, error |-> message]

\* Variant: the line is split at its last colon.
parseDesignator_LastColon(input) ==
  LET trimmed == Trim(input)
      colons == {i \in 1..Len(trimmed) : trimmed[i] = ":"}
      colonIndex == IF colons = {} THEN 0
                    ELSE CHOOSE i \in colons : \A j \in colons : i >= j
      type == ToLowerCase(Trim(SubSeq(trimmed, 1, colonIndex - 1)))
      value == Trim(SubSeq(trimmed, colonIndex + 1, Len(trimmed)))
  IN IF colonIndex = 0 THEN CliError("Invalid designator format")
     ELSE IF type = <<>> THEN CliError("Type is empty")
     ELSE IF value = <<>> THEN CliError("Value is empty")
     ELSE IF \A k \in 1..Len(validTypes) : validTypes[k] # type
       THEN CliError("Unknown designator type")
     ELSE [ok |-> TRUE, type |-> type, value |-> ToUpperCase(value),
           error |-> NULL]

parseDesignator(input) ==
  LET trimmed == Trim(input)
      colonIndex == ColonIndex(trimmed)
      type == ToLowerCase(Trim(SubSeq(trimmed, 1, colonIndex - 1)))
      value == Trim(SubSeq(trimmed, colonIndex + 1, Len(trimmed)))
  IN IF colonIndex = 0 THEN CliError("Invalid designator format")
     ELSE IF type = <<>> THEN CliError("Type is empty")
     ELSE IF value = <<>> THEN CliError("Value is empty")
     ELSE IF \A k \in 1..Len(validTypes) : validTypes[k] # type
       THEN CliError("Unknown designator type")
     ELSE [ok |-> TRUE, type |-> type, value |-> ToUpperCase(value),
           error |-> NULL]

\* A validator that returned true.
Accepted == [ok |-> TRUE, type |-> <<>>, value |-> <<>>, error |-> NULL]

\* /[A-Z0-9]/ and /[A-Z]/ on one character.
IsUpperOrDigit(char) ==
  IndexOf(UpperChars, char) # 0 \/ IndexOf(DigitChars, char) # 0

validateTicker(ticker) ==
  IF Len(ticker) < 1 \/ Len(ticker) > 10
    THEN CliError("Invalid ticker: must be 1-10 characters long")
  ELSE IF IndexOf(UpperChars, ticker[1]) = 0
    THEN CliError("Invalid ticker: must start with a letter")
  ELSE IF \E i \in 1..Len(ticker) :
            ~IsUpperOrDigit(ticker[i]) /\ ticker[i] \notin {".", "-"}
    THEN CliError("Invalid ticker: only letters, numbers, hyphens, and periods allowed")
  ELSE Accepted

\* Variant: only the length and the country code are looked at.
validateIsinFormat_CountryOnly(isin) ==
  IF Len(isin) # 12
    THEN CliError("Invalid ISIN: must be exactly 12 characters")
  ELSE IF IndexOf(UpperChars, isin[1]) = 0 \/ IndexOf(UpperChars, isin[2]) = 0
    THEN CliError("Invalid ISIN: must start with 2-letter country code")
  ELSE Accepted

validateIsinFormat(isin) ==
  IF Len(isin) # 12
    THEN CliError("Invalid ISIN: must be exactly 12 characters")
  ELSE IF IndexOf(UpperChars, isin[1]) = 0 \/ IndexOf(UpperChars, isin[2]) = 0
    THEN CliError("Invalid ISIN: must start with 2-letter country code")
  ELSE IF \/ \E i \in 3..11 : ~IsUpperOrDigit(isin[i])
          \/ IndexOf(DigitChars, isin[12]) = 0
    THEN CliError("Invalid ISIN: invalid format")
  ELSE Accepted

validateCusipFormat(cusip) ==
  IF Len(cusip) # 9
    THEN CliError("Invalid CUSIP: must be exactly 9 characters")
  ELSE IF \/ \E i \in 1..8 : ~IsUpperOrDigit(cusip[i])
          \/ IndexOf(DigitChars, cusip[9]) = 0
    THEN CliError("Invalid CUSIP: must be 8 alphanumeric characters + 1 check digit")
  ELSE Accepted

validateDesignator(type, value) ==
  IF type = <<"t", "i", "c", "k", "e", "r">> THEN validateTicker(value)
  ELSE IF type = <<"i", "s", "i", "n">> THEN validateIsinFormat(value)
  ELSE IF type = <<"c", "u", "s", "i", "p">> THEN validateCusipFormat(value)
  ELSE CliError("Unknown designator type")

\* ------------------------------------------------- identifier math, input
\* How many characters at the end of a sample string are varied.
MaxVaried == 3

\* The characters a varied position takes: digits, uppercase letters, a
\* lowercase letter, a character that is neither.
VariedChars == {"0", "5", "9", "A", "Z", "r", "!"}

\* `sample`, and the strings that differ from it in its last MaxVaried
\* positions only.
Vary(sample) ==
  LET n == IF MaxVaried < Len(sample) THEN MaxVaried ELSE Len(sample)
      kept == Len(sample) - n
  IN {sample} \cup
     { [i \in 1..Len(sample) |->
          IF i > kept THEN tail[i - kept] ELSE sample[i]] :
         tail \in [1..n -> VariedChars] }

\* Bases of the tests' ISINs, with a letter at an odd and at an even place,
\* one too short and one too long.
SampleBases ==
  {<<"U", "S", "0", "3", "7", "8", "3", "3", "1", "0", "0">>,
   <<"U", "S", "8", "8", "1", "6", "0", "R", "1", "0", "1">>,
   <<"G", "B", "0", "0", "0", "2", "6", "3", "4", "9", "4">>,
   <<"U", "S", "0", "3", "7", "8", "3", "3", "1", "0">>,
   <<"U", "S", "0", "3", "7", "8", "3", "3", "1", "0", "0", "5">>}

\* The tests' ISINs: valid ones, without an uppercase country code, too short
\* and too long.
SampleIsins ==
  {<<"U", "S", "0", "3", "7", "8", "3", "3", "1", "0", "0", "5">>,
   <<"U", "S", "8", "8", "1", "6", "0", "R", "1", "0", "1", "4">>,
   <<"u", "s", "0", "3", "7", "8", "3", "3", "1", "0", "0", "5">>,
   <<"0", "3", "7", "8", "3", "3", "1", "0", "0", "5", "X", "X">>,
   <<"U", "S", "0", "3", "7", "8", "3", "3", "1", "0", "0">>,
   <<"U", "S", "0", "3", "7", "8", "3", "3", "1", "0", "0", "5", "5">>}

\* The tests' CUSIPs: in upper and lower case, too short and too long.
SampleCusips ==
  {<<"0", "3", "7", "8", "3", "3", "1", "0", "0">>,
   <<"8", "8", "1", "6", "0", "R", "1", "0", "1">>,
   <<"8", "8", "1", "6", "0", "r", "1", "0", "1">>,
   <<"0", "3", "7", "8", "3", "3", "1">>,
   <<"0", "3", "7", "8", "3", "3", "1", "0", "0", "0">>}

\* The calls made: a function of isin.ts and the string it is given.
MathCalls ==
  {[fn |-> "computeIsinCheckDigit", arg |-> base] :
     base \in UNION {Vary(sample) : sample \in SampleBases}}
  \cup {[fn |-> "validateIsin", arg |-> isin] :
          isin \in UNION {Vary(sample) : sample \in SampleIsins}}
  \cup {[fn |-> "cusipToIsin", arg |-> cusip] :
          cusip \in UNION {Vary(sample) : sample \in SampleCusips}}

\* ---------------------------------------------------------- cli.ts, input
\* The lines parseDesignator is given, put together from white space around
\* the line, a type in either case or none, a colon or none, and a value with
\* white space, in lower case, with a colon of its own, or none.
LineTypes ==
  {<<>>, <<" ">>, <<"t", "i", "c", "k", "e", "r">>, <<"t", "i", "c", "k", "e", "r", " ">>, <<"I", "s", "i", "n">>, <<"C", "U", "S", "I", "P">>, <<"f", "i", "g", "i">>}
LineValues ==
  {<<>>, <<" ">>, <<"a", "a", "p", "l">>, <<" ", "A", "A", "P", "L">>, <<"B", "R", "K", "-", "B">>, <<"a", ":", "b">>, <<":">>}
Lines ==
  { lead \o type \o colon \o value \o trail :
      lead \in {<<>>, <<" ">>}, type \in LineTypes, colon \in {<<>>, <<":">>},
      value \in LineValues, trail \in {<<>>, <<" ">>} }

\* The tests' tickers: plain, with a hyphen, in lower case, too long, starting
\* with a digit and with a character that is not allowed.
SampleTickers ==
  {<<"A", "A", "P", "L">>, <<"B", "R", "K", "-", "B">>, <<"a", "a", "p", "l">>, <<"A", "B", "C", "D", "E", "F", "G", "H", "I", "J", "K">>, <<"1", "A", "A", "P", "L">>, <<"A", "A", "!", "L">>, <<>>}

\* The calls made: a function of cli.ts and what it is given.
CliCalls ==
  {[fn |-> "parseDesignator", type |-> <<>>, arg |-> line] : line \in Lines}
  \cup {[fn |-> "validateDesignator", type |-> <<"i", "s", "i", "n">>, arg |-> isin] :
          isin \in UNION {Vary(sample) : sample \in SampleIsins}}
  \cup {[fn |-> "validateDesignator", type |-> <<"c", "u", "s", "i", "p">>, arg |-> cusip] :
          cusip \in UNION {Vary(sample) : sample \in SampleCusips}}
  \cup {[fn |-> "validateDesignator", type |-> type, arg |-> ticker] :
          type \in {<<"t", "i", "c", "k", "e", "r">>, <<"f", "i", "g", "i">>}, ticker \in SampleTickers}

\* ----------------------------------------------------------------- state
VARIABLES
  securities,          \* table securities, securities[i].id = i
  identifiers_ticker,  \* table identifiers_ticker
  identifiers_isin,    \* table identifiers_isin
  identifiers_cusip,   \* table identifiers_cusip
  identifiers_cik,     \* table identifiers_cik
  clock,               \* Math.floor(Date.now() / 1000), counted from the start
  call,                \* the latest insertSecurity call: argument, result, and
                       \* the tables as they were when it started
  prev,                \* the insertSecurity call before that one
  ncalls,              \* number of insertSecurity calls made
  looked,              \* the latest lookup call since the tables were last
                       \* written: key and result
  output,              \* the latest processDesignator call: designator,
                       \* configuration, OutputRecord, fetchTickerProfile calls
                       \* made, tables before
  resolved,            \* the profiles fetchTickerProfile has returned so far,
                       \* each with the ticker that was asked for
  applied,             \* a call of a function of isin.ts or cli.ts: the
                       \* function, its argument and, once it is done, what
                       \* it returned or threw
  fetched,             \* a call of fetchTickerProfile: its arguments, what
                       \* fetch answers and, once it is done, what it
                       \* returned or threw
  batch                \* a run of main(): the designators, the API key, and
                       \* the records printed so far with the exit code

tables ==
  <<securities, identifiers_ticker, identifiers_isin, identifiers_cusip,
    identifiers_cik>>

vars ==
  <<securities, identifiers_ticker, identifiers_isin, identifiers_cusip,
    identifiers_cik, clock, call, prev, ncalls, looked, output, resolved,
    applied, fetched, batch>>

\* The five tables as one value.
Db ==
  [securities |-> securities, identifiers_ticker |-> identifiers_ticker,
   identifiers_isin |-> identifiers_isin, identifiers_cusip |-> identifiers_cusip,
   identifiers_cik |-> identifiers_cik]

EmptyDb ==
  [securities |-> <<>>, identifiers_ticker |-> <<>>, identifiers_isin |-> <<>>,
   identifiers_cusip |-> <<>>, identifiers_cik |-> <<>>]

NoCall ==
  [op |-> "initDatabase", security |-> NoSecurity, result |-> 0,
   timestamp |-> 0, before |-> EmptyDb]

\* What a lookup returns for "no row": null, written as a record with id 0.
NotFound ==
  [id |-> 0, name |-> NULL, ticker |-> NULL, exchange |-> NULL, isin |-> NULL,
   cusip |-> NULL, cik |-> NULL, security_type |-> NULL, market_sector |-> NULL,
   source |-> NULL, fetched_at |-> 0]

\* No lookup made on the tables as they are now.
NoLookup ==
  [op |-> "none", ticker |-> NULL, exchange |-> NULL, isin |-> NULL,
   cusip |-> NULL, result |-> NotFound]

\* No designator processed yet.  An OutputRecord (ticker ... error, with the
\* message an error wraps as `detail`), and around it what produced it: the
\* designator, the API key, the calls of fetchTickerProfile made and what
\* fetch answered, the tables and the profiles known when it started, the
\* calls of fetch made and the class of what fetchTickerProfile threw.
NoOutput ==
  [type |-> "none", value |-> NULL, apiKey |-> NULL, fetches |-> 0,
   response |-> NoAnswer, ticker |-> NULL, isin |-> NULL, cusip |-> NULL,
   cik |-> NULL, name |-> NULL, exchange |-> NULL, source |-> NULL,
   error |-> NULL, detail |-> NULL, before |-> EmptyDb, known |-> {},
   requests |-> 0, raised |-> NULL]

\* No call of fetchTickerProfile.
NoFetch ==
  [ticker |-> NULL, apiKey |-> NULL, answer |-> NoAnswer, done |-> FALSE,
   ok |-> FALSE, name |-> NULL, message |-> NULL, data |-> NoSecurity,
   requests |-> 0]

\* No run of main().
NoBatch == [designators |-> <<>>, apiKey |-> NULL, printed |-> <<>>, exit |-> -1]

\* No function of isin.ts or cli.ts called.
NoMath ==
  [fn |-> "none", arg |-> <<>>, done |-> FALSE, ok |-> FALSE, valid |-> FALSE,
   digit |-> 0, value |-> <<>>, error |-> NULL, type |-> <<>>]

\* initDatabase(":memory:"): every table exists and is empty.
Init ==
  /\ securities = <<>>
  /\ identifiers_ticker = <<>>
  /\ identifiers_isin = <<>>
  /\ identifiers_cusip = <<>>
  /\ identifiers_cik = <<>>
  /\ clock = 0
  /\ call = NoCall
  /\ prev = NoCall
  /\ ncalls = 0
  /\ looked = NoLookup
  /\ output = NoOutput
  /\ resolved = {}
  /\ applied = NoMath
  /\ fetched = NoFetch
  /\ batch = NoBatch

\* ----------------------------------------------------------- SQL helpers
\* JavaScript truthiness of an optional string: absent is falsy.
Truthy(v) == v # NULL

\* The rows of a table that a WHERE clause selects, as sets of positions.
\* `exchange = ?` is true of no row when either side is NULL, and so the
\* primary key (ticker, exchange) never finds a conflict on a NULL exchange.
TickerRows(tbl, ticker, exchange) ==
  { i \in 1..Len(tbl) :
      /\ exchange # NULL
      /\ tbl[i].ticker = ticker /\ tbl[i].exchange = exchange }
IsinRows(tbl, isin) == { i \in 1..Len(tbl) : tbl[i].isin = isin }
CusipRows(tbl, cusip) == { i \in 1..Len(tbl) : tbl[i].cusip = cusip }
CikRows(tbl, cik) == { i \in 1..Len(tbl) : tbl[i].cik = cik }
OwnedRows(tbl, securityId) ==
  { i \in 1..Len(tbl) : tbl[i].security_id = securityId }

\* statement.get(): the first selected row in rowid order, 0 (undefined) if none.
FirstRow(selected) ==
  IF selected = {} THEN 0
  ELSE CHOOSE i \in selected : \A j \in selected : i <= j

\* SELECT security_id ...: the security_id of row i, or 0 (undefined) for no row.
SelectSecurityId(tbl, i) == IF i = 0 THEN 0 ELSE tbl[i].security_id

\* --------------------------------------------------------- insertSecurity
\* The three probes, in order: ticker+exchange, then ISIN, then CUSIP.
\* 0 stands for `securityId` still undefined.
\* Variant: the ticker probe forgets the exchange (WHERE ticker = ?).
ProbeTicker_IgnoreExchange(security) ==
  SelectSecurityId(identifiers_ticker,
    FirstRow({ i \in 1..Len(identifiers_ticker) :
                 identifiers_ticker[i].ticker = security.ticker }))

ProbeTicker(security) ==
  SelectSecurityId(identifiers_ticker,
    FirstRow(TickerRows(identifiers_ticker, security.ticker, security.exchange)))

ProbeIsin(security) ==
  SelectSecurityId(identifiers_isin,
    FirstRow(IsinRows(identifiers_isin, security.isin)))

ProbeCusip(security) ==
  SelectSecurityId(identifiers_cusip,
    FirstRow(CusipRows(identifiers_cusip, security.cusip)))

\* Variant: the (ticker, exchange) probe is left out.
ExistingSecurityId_NoTickerProbe(security) ==
  LET byIsin == IF Truthy(security.isin) THEN ProbeIsin(security) ELSE 0
      byCusip == IF byIsin = 0 /\ Truthy(security.cusip)
                   THEN ProbeCusip(security) ELSE byIsin
  IN byCusip

\* Variant: the CUSIP probe runs before the ISIN probe.
ExistingSecurityId_CusipFirst(security) ==
  LET byTicker == ProbeTicker(security)
      byCusip == IF byTicker = 0 /\ Truthy(security.cusip)
                   THEN ProbeCusip(security) ELSE byTicker
      byIsin == IF byCusip = 0 /\ Truthy(security.isin)
                  THEN ProbeIsin(security) ELSE byCusip
  IN byIsin

ExistingSecurityId(security) ==
  LET byTicker == ProbeTicker(security)
      byIsin == IF byTicker = 0 /\ Truthy(security.isin)
                  THEN ProbeIsin(security) ELSE byTicker
      byCusip == IF byIsin = 0 /\ Truthy(security.cusip)
                   THEN ProbeCusip(security) ELSE byIsin
  IN byCusip

\* Variant: a securities row is inserted even when one was found.
WriteSecurity_AlwaysInsert(tbl, securityId, security, timestamp) ==
  Append(tbl,
    [id |-> Len(tbl) + 1, name |-> security.name,
     security_type |-> security.security_type,
     market_sector |-> security.market_sector,
     created_at |-> timestamp, updated_at |-> timestamp])

\* Variant: the UPDATE keeps a stored type or sector when the record has none
\* (SET security_type = COALESCE(?, security_type), ...).
WriteSecurity_KeepSetFields(tbl, securityId, security, timestamp) ==
  IF securityId = 0
    THEN Append(tbl,
           [id |-> Len(tbl) + 1, name |-> security.name,
            security_type |-> security.security_type,
            market_sector |-> security.market_sector,
            created_at |-> timestamp, updated_at |-> timestamp])
    ELSE [tbl EXCEPT ![securityId] =
           [@ EXCEPT !.name = security.name,
                     !.security_type =
                       IF Truthy(security.security_type)
                         THEN security.security_type ELSE @,
                     !.market_sector =
                       IF Truthy(security.market_sector)
                         THEN security.market_sector ELSE @,
                     !.updated_at = timestamp]]

\* Variant: an existing Security is written with INSERT OR REPLACE and no id, so
\* its row is replaced by one with a fresh id.
WriteSecurity_Replace(tbl, securityId, security, timestamp) ==
  IF securityId = 0
    THEN Append(tbl,
           [id |-> Len(tbl) + 1, name |-> security.name,
            security_type |-> security.security_type,
            market_sector |-> security.market_sector,
            created_at |-> timestamp, updated_at |-> timestamp])
    ELSE [tbl EXCEPT ![securityId] =
           [id |-> Len(tbl) + securityId, name |-> security.name,
            security_type |-> security.security_type,
            market_sector |-> security.market_sector,
            created_at |-> timestamp, updated_at |-> timestamp]]

\* INSERT INTO securities ... / UPDATE securities SET ... WHERE id = ?
\* `x || null` leaves an absent field NULL.
WriteSecurity(tbl, securityId, security, timestamp) ==
  IF securityId = 0
    THEN Append(tbl,
           [id |-> Len(tbl) + 1, name |-> security.name,
            security_type |-> security.security_type,
            market_sector |-> security.market_sector,
            created_at |-> timestamp, updated_at |-> timestamp])
    ELSE [tbl EXCEPT ![securityId] =
           [@ EXCEPT !.name = security.name,
                     !.security_type = security.security_type,
                     !.market_sector = security.market_sector,
                     !.updated_at = timestamp]]

\* Variant: a plain INSERT into a table without its primary key.
UpsertTicker_InsertOnly(tbl, securityId, security, timestamp) ==
  Append(tbl,
    [security_id |-> securityId, ticker |-> security.ticker,
     exchange |-> security.exchange, source |-> security.source,
     fetched_at |-> timestamp])

\* INSERT INTO identifiers_ticker ... ON CONFLICT(ticker, exchange) DO UPDATE SET
\* security_id, source, fetched_at.
UpsertTicker(tbl, securityId, security, timestamp) ==
  LET i == FirstRow(TickerRows(tbl, security.ticker, security.exchange))
      row == [security_id |-> securityId, ticker |-> security.ticker,
              exchange |-> security.exchange, source |-> security.source,
              fetched_at |-> timestamp]
  IN IF i = 0 THEN Append(tbl, row)
     ELSE [tbl EXCEPT ![i] = [@ EXCEPT !.security_id = securityId,
                                       !.source = security.source,
                                       !.fetched_at = timestamp]]

\* Variant: ON CONFLICT(isin) DO UPDATE SET source, fetched_at only.
UpsertIsin_KeepOwner(tbl, securityId, security, timestamp) ==
  LET i == FirstRow(IsinRows(tbl, security.isin))
      row == [security_id |-> securityId, isin |-> security.isin,
              source |-> security.source, fetched_at |-> timestamp]
  IN IF ~Truthy(security.isin) THEN tbl
     ELSE IF i = 0 THEN Append(tbl, row)
     ELSE [tbl EXCEPT ![i] = [@ EXCEPT !.source = security.source,
                                       !.fetched_at = timestamp]]

\* INSERT INTO identifiers_isin ... ON CONFLICT(isin) DO UPDATE SET ..., if provided.
UpsertIsin(tbl, securityId, security, timestamp) ==
  LET i == FirstRow(IsinRows(tbl, security.isin))
      row == [security_id |-> securityId, isin |-> security.isin,
              source |-> security.source, fetched_at |-> timestamp]
  IN IF ~Truthy(security.isin) THEN tbl
     ELSE IF i = 0 THEN Append(tbl, row)
     ELSE [tbl EXCEPT ![i] = [@ EXCEPT !.security_id = securityId,
                                       !.source = security.source,
                                       !.fetched_at = timestamp]]

\* INSERT INTO identifiers_cusip ... ON CONFLICT(cusip) DO UPDATE SET ..., if provided.
UpsertCusip(tbl, securityId, security, timestamp) ==
  LET i == FirstRow(CusipRows(tbl, security.cusip))
      row == [security_id |-> securityId, cusip |-> security.cusip,
              source |-> security.source, fetched_at |-> timestamp]
  IN IF ~Truthy(security.cusip) THEN tbl
     ELSE IF i = 0 THEN Append(tbl, row)
     ELSE [tbl EXCEPT ![i] = [@ EXCEPT !.security_id = securityId,
                                       !.source = security.source,
                                       !.fetched_at = timestamp]]

\* Variant: ON CONFLICT(cik) DO UPDATE SET source, fetched_at only.
UpsertCik_KeepOwner(tbl, securityId, security, timestamp) ==
  LET i == FirstRow(CikRows(tbl, security.cik))
      row == [security_id |-> securityId, cik |-> security.cik,
              source |-> security.source, fetched_at |-> timestamp]
  IN IF ~Truthy(security.cik) THEN tbl
     ELSE IF i = 0 THEN Append(tbl, row)
     ELSE [tbl EXCEPT ![i] = [@ EXCEPT !.source = security.source,
                                       !.fetched_at = timestamp]]

\* INSERT INTO identifiers_cik ... ON CONFLICT(cik) DO UPDATE SET ..., if provided.
UpsertCik(tbl, securityId, security, timestamp) ==
  LET i == FirstRow(CikRows(tbl, security.cik))
      row == [security_id |-> securityId, cik |-> security.cik,
              source |-> security.source, fetched_at |-> timestamp]
  IN IF ~Truthy(security.cik) THEN tbl
     ELSE IF i = 0 THEN Append(tbl, row)
     ELSE [tbl EXCEPT ![i] = [@ EXCEPT !.security_id = securityId,
                                       !.source = security.source,
                                       !.fetched_at = timestamp]]

\* Variant: db.lastInsertRowId is read before the INSERT has run.
ResolvedSecurityId_Stale(security) ==
  LET existing == ExistingSecurityId(security)
  IN IF existing = 0 THEN Len(securities) ELSE existing

\* The id insertSecurity returns: the existing one, or db.lastInsertRowId.
ResolvedSecurityId(security) ==
  LET existing == ExistingSecurityId(security)
  IN IF existing = 0 THEN Len(securities) + 1 ELSE existing

\* One call of insertSecurity.  No branch reads the clock; successive calls are
\* given successive seconds, so that every rewritten timestamp shows.
insertSecurity(security) ==
  LET timestamp == clock
      existing == ExistingSecurityId(security)
      securityId == ResolvedSecurityId(security)
  IN /\ ncalls < MaxCalls
     /\ securities' = WriteSecurity(securities, existing, security, timestamp)
     /\ identifiers_ticker' =
          UpsertTicker(identifiers_ticker, securityId, security, timestamp)
     /\ identifiers_isin' =
          UpsertIsin(identifiers_isin, securityId, security, timestamp)
     /\ identifiers_cusip' =
          UpsertCusip(identifiers_cusip, securityId, security, timestamp)
     /\ identifiers_cik' =
          UpsertCik(identifiers_cik, securityId, security, timestamp)
     /\ call' = [op |-> "insertSecurity", security |-> security,
                 result |-> securityId, timestamp |-> timestamp,
                 before |-> Db]
     /\ prev' = call
     /\ ncalls' = ncalls + 1
     /\ clock' = clock + 1

\* ---------------------------------------------------------------- lookups
\* BINARY collation of the exchange column, as far as the model's values go.
ExchangeRank(x) ==
  CASE x = "LSE" -> 1
    [] x = "NYSE" -> 2
    [] OTHER -> 0

\* LEFT JOIN tbl ON s.id = tbl.security_id, as .get() sees it: the column `col`
\* of the first row of tbl (rowid order) owned by securityId, NULL if none.
LeftJoin(tbl, securityId, col) ==
  LET i == FirstRow(OwnedRows(tbl, securityId))
  IN IF i = 0 THEN NULL ELSE tbl[i][col]

\* Variant: a lookup without an exchange looks on the default exchange 'US'.
TickerRow_DefaultExchange(db, ticker, exchange) ==
  FirstRow(TickerRows(db.identifiers_ticker, ticker,
                      IF Truthy(exchange) THEN exchange ELSE "US"))

\* The row of identifiers_ticker a ticker lookup starts from (0 if none).  With
\* an exchange the primary key picks it; without, LIMIT 1 takes the first entry
\* of idx_ticker(ticker, exchange) for that ticker.
TickerRow(db, ticker, exchange) ==
  LET t == db.identifiers_ticker
  IN IF Truthy(exchange)
       THEN FirstRow(TickerRows(t, ticker, exchange))
       ELSE IF \E i \in 1..Len(t) : t[i].ticker = ticker
              THEN CHOOSE i \in 1..Len(t) :
                     /\ t[i].ticker = ticker
                     /\ \A j \in 1..Len(t) :
                          t[j].ticker = ticker =>
                            \/ ExchangeRank(t[i].exchange) < ExchangeRank(t[j].exchange)
                            \/ /\ ExchangeRank(t[i].exchange) = ExchangeRank(t[j].exchange)
                               /\ i <= j
              ELSE 0

\* JOIN securities AS s ON x.security_id = s.id finds a row.
HasSecurity(db, securityId) == securityId \in 1..Len(db.securities)

\* Variant: the identifier tables are joined with JOIN instead of LEFT JOIN.
lookupByTicker_InnerJoin(db, ticker, exchange) ==
  LET i == TickerRow(db, ticker, exchange)
  IN IF i = 0 \/ ~HasSecurity(db, db.identifiers_ticker[i].security_id)
       THEN NotFound
     ELSE LET t == db.identifiers_ticker[i]
              s == db.securities[t.security_id]
          IN IF \/ OwnedRows(db.identifiers_isin, s.id) = {}
                \/ OwnedRows(db.identifiers_cusip, s.id) = {}
                \/ OwnedRows(db.identifiers_cik, s.id) = {}
               THEN NotFound
             ELSE [id |-> s.id, name |-> s.name, ticker |-> t.ticker,
                   exchange |-> t.exchange,
                   isin |-> LeftJoin(db.identifiers_isin, s.id, "isin"),
                   cusip |-> LeftJoin(db.identifiers_cusip, s.id, "cusip"),
                   cik |-> LeftJoin(db.identifiers_cik, s.id, "cik"),
                   security_type |-> s.security_type,
                   market_sector |-> s.market_sector,
                   source |-> "db", fetched_at |-> t.fetched_at]

lookupByTicker(db, ticker, exchange) ==
  LET i == TickerRow(db, ticker, exchange)
  IN IF i = 0 \/ ~HasSecurity(db, db.identifiers_ticker[i].security_id)
       THEN NotFound
     ELSE LET t == db.identifiers_ticker[i]
              s == db.securities[t.security_id]
          IN [id |-> s.id, name |-> s.name, ticker |-> t.ticker,
              exchange |-> t.exchange,
              isin |-> LeftJoin(db.identifiers_isin, s.id, "isin"),
              cusip |-> LeftJoin(db.identifiers_cusip, s.id, "cusip"),
              cik |-> LeftJoin(db.identifiers_cik, s.id, "cik"),
              security_type |-> s.security_type,
              market_sector |-> s.market_sector,
              source |-> "db", fetched_at |-> t.fetched_at]

\* Variant: identifiers_cusip is joined with JOIN instead of LEFT JOIN.
lookupByIsin_InnerJoin(db, isin) ==
  LET n == FirstRow(IsinRows(db.identifiers_isin, isin))
  IN IF n = 0 \/ ~HasSecurity(db, db.identifiers_isin[n].security_id)
          \/ OwnedRows(db.identifiers_cusip,
                       db.identifiers_isin[n].security_id) = {}
       THEN NotFound
     ELSE LET i == db.identifiers_isin[n]
              s == db.securities[i.security_id]
          IN [id |-> s.id, name |-> s.name,
              ticker |-> LeftJoin(db.identifiers_ticker, s.id, "ticker"),
              exchange |-> LeftJoin(db.identifiers_ticker, s.id, "exchange"),
              isin |-> i.isin,
              cusip |-> LeftJoin(db.identifiers_cusip, s.id, "cusip"),
              cik |-> LeftJoin(db.identifiers_cik, s.id, "cik"),
              security_type |-> s.security_type,
              market_sector |-> s.market_sector,
              source |-> "db", fetched_at |-> i.fetched_at]

lookupByIsin(db, isin) ==
  LET n == FirstRow(IsinRows(db.identifiers_isin, isin))
  IN IF n = 0 \/ ~HasSecurity(db, db.identifiers_isin[n].security_id)
       THEN NotFound
     ELSE LET i == db.identifiers_isin[n]
              s == db.securities[i.security_id]
          IN [id |-> s.id, name |-> s.name,
              ticker |-> LeftJoin(db.identifiers_ticker, s.id, "ticker"),
              exchange |-> LeftJoin(db.identifiers_ticker, s.id, "exchange"),
              isin |-> i.isin,
              cusip |-> LeftJoin(db.identifiers_cusip, s.id, "cusip"),
              cik |-> LeftJoin(db.identifiers_cik, s.id, "cik"),
              security_type |-> s.security_type,
              market_sector |-> s.market_sector,
              source |-> "db", fetched_at |-> i.fetched_at]

lookupByCusip(db, cusip) ==
  LET n == FirstRow(CusipRows(db.identifiers_cusip, cusip))
  IN IF n = 0 \/ ~HasSecurity(db, db.identifiers_cusip[n].security_id)
       THEN NotFound
     ELSE LET c == db.identifiers_cusip[n]
              s == db.securities[c.security_id]
          IN [id |-> s.id, name |-> s.name,
              ticker |-> LeftJoin(db.identifiers_ticker, s.id, "ticker"),
              exchange |-> LeftJoin(db.identifiers_ticker, s.id, "exchange"),
              isin |-> LeftJoin(db.identifiers_isin, s.id, "isin"),
              cusip |-> c.cusip,
              cik |-> LeftJoin(db.identifiers_cik, s.id, "cik"),
              security_type |-> s.security_type,
              market_sector |-> s.market_sector,
              source |-> "db", fetched_at |-> c.fetched_at]

\* The lookups as calls: a SELECT, which writes nothing.
CallLookupByTicker(ticker, exchange) ==
  /\ looked' = [op |-> "lookupByTicker", ticker |-> ticker,
                exchange |-> exchange, isin |-> NULL, cusip |-> NULL,
                result |-> lookupByTicker(Db, ticker, exchange)]
  /\ UNCHANGED <<tables, clock, call, prev, ncalls, output, resolved, applied,
                 fetched, batch>>

\* Variant: a lookup by ISIN stamps the row it finds.
CallLookupByIsin_Touch(isin) ==
  /\ looked' = [op |-> "lookupByIsin", ticker |-> NULL, exchange |-> NULL,
                isin |-> isin, cusip |-> NULL,
                result |-> lookupByIsin(Db, isin)]
  /\ identifiers_isin' =
       [i \in 1..Len(identifiers_isin) |->
          IF identifiers_isin[i].isin = isin
            THEN [identifiers_isin[i] EXCEPT !.fetched_at = clock]
            ELSE identifiers_isin[i]]
  /\ UNCHANGED <<securities, identifiers_ticker, identifiers_cusip,
                 identifiers_cik, clock, call, prev, ncalls, output, resolved,
                 applied, fetched, batch>>

CallLookupByIsin(isin) ==
  /\ looked' = [op |-> "lookupByIsin", ticker |-> NULL, exchange |-> NULL,
                isin |-> isin, cusip |-> NULL,
                result |-> lookupByIsin(Db, isin)]
  /\ UNCHANGED <<tables, clock, call, prev, ncalls, output, resolved, applied,
                 fetched, batch>>

CallLookupByCusip(cusip) ==
  /\ looked' = [op |-> "lookupByCusip", ticker |-> NULL, exchange |-> NULL,
                isin |-> NULL, cusip |-> cusip,
                result |-> lookupByCusip(Db, cusip)]
  /\ UNCHANGED <<tables, clock, call, prev, ncalls, output, resolved, applied,
                 fetched, batch>>

\* ------------------------------------------------------ calls of isin.ts
\* The call `applied` returns or throws.
Returned(result) ==
  [applied EXCEPT !.done = TRUE, !.ok = result.ok, !.digit = result.digit,
                  !.value = result.value, !.error = result.error]

CallComputeIsinCheckDigit ==
  /\ applied.fn = "computeIsinCheckDigit" /\ ~applied.done
  /\ applied' = Returned(computeIsinCheckDigit(applied.arg))
  /\ UNCHANGED <<tables, clock, call, prev, ncalls, looked, output, resolved,
                 fetched, batch>>

CallCusipToIsin ==
  /\ applied.fn = "cusipToIsin" /\ ~applied.done
  /\ applied' = Returned(cusipToIsin(applied.arg))
  /\ UNCHANGED <<tables, clock, call, prev, ncalls, looked, output, resolved,
                 fetched, batch>>

CallValidateIsin ==
  /\ applied.fn = "validateIsin" /\ ~applied.done
  /\ applied' = [Returned(validateIsin(applied.arg)) EXCEPT
                   !.valid = validateIsin(applied.arg).valid]
  /\ UNCHANGED <<tables, clock, call, prev, ncalls, looked, output, resolved,
                 fetched, batch>>

\* ------------------------------------------------------- fetchTickerProfile
\* A rejected promise: the class of the error and its message, after
\* `requests` calls of fetch.
Rejected(name, message, requests) ==
  [ok |-> FALSE, name |-> name, message |-> message, data |-> NoSecurity,
   requests |-> requests]

\* response.json().catch(() => ({})) of the 401/403 branch.
JsonOrEmptyObject(body) ==
  IF body.kind = "invalid" THEN ObjectBody(Undefined) ELSE body

\* The 401/403 branch: body["Error Message"]?.includes("Invalid API KEY").
\* Reading a property of null, and calling includes on a number, throw a
\* TypeError.
AuthenticationFailure(body) ==
  IF body.kind = "null"
    THEN Rejected("TypeError", "Cannot read properties of null", 1)
  ELSE IF body.errorMessage.type = "undefined"
    THEN Rejected("FmpApiError", "Authentication failed", 1)
  ELSE IF body.errorMessage.type # "string"
    THEN Rejected("TypeError", "includes is not a function", 1)
  ELSE IF Includes(body.errorMessage.text, "Invalid API KEY")
    THEN Rejected("FmpApiError", "Invalid API KEY", 1)
  ELSE Rejected("FmpApiError", "Authentication failed", 1)

\* "Check for rate limit in response body".
RateLimitBody(data) ==
  /\ Len(data) = 1
  /\ data[1].kind = "object"
  /\ data[1].message.type = "string"
  /\ Includes(data[1].message.text, "rate limit")

\* Variant: the key is tested with !apiKey only, without trim().
fetchTickerProfile_KeyNotTrimmed(ticker, apiKey, answer) ==
  IF apiKey = ""
    THEN Rejected("FmpApiError", "API key is required", 0)
  ELSE IF answer.rejects = "TypeError"
    THEN Rejected("FmpApiError", "Network error", 1)
  ELSE IF answer.rejects # "no"
    THEN Rejected("FmpApiError", "Unexpected error", 1)
  ELSE IF answer.status \notin 200..299
    THEN IF answer.status = 429
           THEN Rejected("FmpRateLimitError",
                         "Rate limit exceeded (250 requests/day)", 1)
         ELSE IF answer.status \in {401, 403}
           THEN AuthenticationFailure(JsonOrEmptyObject(answer.body))
         ELSE IF answer.status >= 500
           THEN Rejected("FmpApiError", "FMP server error", 1)
         ELSE Rejected("FmpApiError", "HTTP error", 1)
  ELSE IF answer.body.kind = "invalid"
    THEN Rejected("FmpApiError", "Failed to parse JSON response", 1)
  ELSE IF answer.body.kind # "array"
    THEN Rejected("FmpApiError", "Invalid response format", 1)
  ELSE IF RateLimitBody(answer.body.elements)
    THEN Rejected("FmpRateLimitError",
                  "Rate limit exceeded (250 requests/day)", 1)
  ELSE IF Len(answer.body.elements) = 0
    THEN Rejected("FmpApiError", "Ticker not found", 1)
  ELSE IF answer.body.elements[1].kind = "null"
    THEN Rejected("TypeError", "Cannot read properties of null", 1)
  ELSE [ok |-> TRUE, name |-> NULL, message |-> NULL,
        data |-> [name |-> answer.body.elements[1].profile.companyName,
                  ticker |-> answer.body.elements[1].profile.symbol,
                  exchange |-> answer.body.elements[1].profile.exchange,
                  isin |-> answer.body.elements[1].profile.isin,
                  cusip |-> answer.body.elements[1].profile.cusip,
                  cik |-> answer.body.elements[1].profile.cik,
                  source |-> "fmp",
                  security_type |-> NULL,
                  market_sector |-> answer.body.elements[1].profile.sector],
        requests |-> 1]

\* fetchTickerProfile(ticker, apiKey), with `answer` what fetch() comes back
\* with if it is called.  What is read from data[0] is not checked: a number
\* or an object without the fields gives a record of undefined fields, null
\* a TypeError.
fetchTickerProfile(ticker, apiKey, answer) ==
  IF apiKey \in {"", " "}
    THEN Rejected("FmpApiError", "API key is required", 0)
  ELSE IF answer.rejects = "TypeError"
    THEN Rejected("FmpApiError", "Network error", 1)
  ELSE IF answer.rejects # "no"
    THEN Rejected("FmpApiError", "Unexpected error", 1)
  ELSE IF answer.status \notin 200..299
    THEN IF answer.status = 429
           THEN Rejected("FmpRateLimitError",
                         "Rate limit exceeded (250 requests/day)", 1)
         ELSE IF answer.status \in {401, 403}
           THEN AuthenticationFailure(JsonOrEmptyObject(answer.body))
         ELSE IF answer.status >= 500
           THEN Rejected("FmpApiError", "FMP server error", 1)
         ELSE Rejected("FmpApiError", "HTTP error", 1)
  ELSE IF answer.body.kind = "invalid"
    THEN Rejected("FmpApiError", "Failed to parse JSON response", 1)
  ELSE IF answer.body.kind # "array"
    THEN Rejected("FmpApiError", "Invalid response format", 1)
  ELSE IF RateLimitBody(answer.body.elements)
    THEN Rejected("FmpRateLimitError",
                  "Rate limit exceeded (250 requests/day)", 1)
  ELSE IF Len(answer.body.elements) = 0
    THEN Rejected("FmpApiError", "Ticker not found", 1)
  ELSE IF answer.body.elements[1].kind = "null"
    THEN Rejected("TypeError", "Cannot read properties of null", 1)
  ELSE [ok |-> TRUE, name |-> NULL, message |-> NULL,
        data |-> [name |-> answer.body.elements[1].profile.companyName,
                  ticker |-> answer.body.elements[1].profile.symbol,
                  exchange |-> answer.body.elements[1].profile.exchange,
                  isin |-> answer.body.elements[1].profile.isin,
                  cusip |-> answer.body.elements[1].profile.cusip,
                  cik |-> answer.body.elements[1].profile.cik,
                  source |-> "fmp",
                  security_type |-> NULL,
                  market_sector |-> answer.body.elements[1].profile.sector],
        requests |-> 1]

\* ------------------------------------------------------- calls of cli.ts
CallParseDesignator ==
  LET designator == parseDesignator(applied.arg)
  IN /\ applied.fn = "parseDesignator" /\ ~applied.done
     /\ applied' = [applied EXCEPT !.done = TRUE, !.ok = designator.ok,
                                   !.type = designator.type,
                                   !.value = designator.value,
                                   !.error = designator.error]
     /\ UNCHANGED <<tables, clock, call, prev, ncalls, looked, output, resolved,
                    fetched, batch>>

CallValidateDesignator ==
  LET result == validateDesignator(applied.type, applied.arg)
  IN /\ applied.fn = "validateDesignator" /\ ~applied.done
     /\ applied' = [applied EXCEPT !.done = TRUE, !.ok = result.ok,
                                   !.error = result.error]
     /\ UNCHANGED <<tables, clock, call, prev, ncalls, looked, output, resolved,
                    fetched, batch>>

\* The call `fetched` returns or throws.
CallFetchTickerProfile ==
  LET result == fetchTickerProfile(fetched.ticker, fetched.apiKey,
                                   fetched.answer)
  IN /\ fetched.ticker # NULL /\ ~fetched.done
     /\ fetched' = [fetched EXCEPT !.done = TRUE, !.ok = result.ok,
                                   !.name = result.name,
                                   !.message = result.message,
                                   !.data = result.data,
                                   !.requests = result.requests]
     /\ UNCHANGED <<tables, clock, call, prev, ncalls, looked, output, resolved,
                    applied, batch>>

\* ------------------------------------------------------- processDesignator
\* The messages of the error outcomes.
NoApiKey == "FMP_API_KEY environment variable not set. Cannot fetch from API."
RateLimited == "Rate limit exceeded (250 requests/day). Please try again tomorrow."
FmpFailed == "FMP API error"
Unexpected == "Unexpected error"
IsinNotCached ==
  "Reverse lookup (ISIN -> ticker) only works for cached entries. Please look up the ticker first to populate the cache."
CusipNotCached ==
  "CUSIP not found in cache. Computed ISIN, but ticker lookup requires paid API. Please look up the ticker first."
IsinNotComputed == "Failed to compute ISIN"
BadCusipLength == "Invalid CUSIP length. CUSIP must be exactly 9 characters."

\* "Lookup in database first": the switch over the designator's type.
StoreLookup(type, value) ==
  CASE type = "ticker" -> lookupByTicker(Db, value, NULL)
    [] type = "isin" -> lookupByIsin(Db, value)
    [] type = "cusip" -> lookupByCusip(Db, value)

\* The OutputRecord made from a stored record.
FromStore(q, security, source) ==
  [q EXCEPT !.ticker = security.ticker, !.isin = security.isin,
            !.cusip = security.cusip, !.cik = security.cik,
            !.name = security.name, !.exchange = security.exchange,
            !.source = source]

\* The OutputRecord made from a fetched profile.
FromFmp(q, answer, profile) ==
  [q EXCEPT !.fetches = 1, !.requests = 1, !.response = answer,
            !.ticker = profile.ticker, !.isin = profile.isin,
            !.cusip = profile.cusip, !.cik = profile.cik,
            !.name = profile.name, !.exchange = profile.exchange,
            !.source = "fmp"]

\* The OutputRecord of a failed fetchTickerProfile: the three catch branches,
\* by the class of what was thrown.
FmpError(q, answer, rejection) ==
  [q EXCEPT !.fetches = 1, !.requests = rejection.requests,
            !.response = IF rejection.requests = 0 THEN NoAnswer ELSE answer,
            !.raised = rejection.name,
            !.source = "fmp",
            !.error = IF rejection.name = "FmpRateLimitError" THEN RateLimited
                      ELSE IF rejection.name = "FmpApiError" THEN FmpFailed
                      ELSE Unexpected,
            !.detail = IF rejection.name = "FmpRateLimitError"
                         THEN NULL ELSE rejection.message]

\* The OutputRecord when insertSecurity throws: the last catch branch.
InsertError(q, answer) ==
  [q EXCEPT !.fetches = 1, !.requests = 1, !.response = answer,
            !.source = "fmp", !.error = Unexpected,
            !.detail = "NOT NULL constraint failed: identifiers_ticker.ticker"]

\* insertSecurity for a record without a ticker: no probe matches NULL, the
\* securities row is written, and the INSERT into identifiers_ticker fails on
\* NOT NULL.  Each statement commits by itself, so the row stays.
insertSecurityThrows(security) ==
  LET timestamp == clock
      existing == ExistingSecurityId(security)
  IN /\ ncalls < MaxCalls
     /\ securities' = WriteSecurity(securities, existing, security, timestamp)
     /\ UNCHANGED <<identifiers_ticker, identifiers_isin, identifiers_cusip,
                    identifiers_cik>>
     /\ call' = [op |-> "insertSecurity threw", security |-> security,
                 result |-> 0, timestamp |-> timestamp, before |-> Db]
     /\ prev' = call
     /\ ncalls' = ncalls + 1
     /\ clock' = clock + 1

\* Variant: a failed fetchTickerProfile is tried a second time.
TickerMiss_Retry(q, answer) ==
  LET profile == fetchTickerProfile(q.value, q.apiKey, answer)
  IN IF q.apiKey = ""
       THEN /\ output' = [q EXCEPT !.source = "fmp", !.error = NoApiKey]
            /\ UNCHANGED <<tables, clock, call, prev, ncalls, resolved>>
     ELSE IF ~profile.ok
       THEN /\ output' = [FmpError(q, answer, profile) EXCEPT !.fetches = 2]
            /\ UNCHANGED <<tables, clock, call, prev, ncalls, resolved>>
     ELSE IF profile.data.ticker = NULL
       THEN /\ insertSecurityThrows(profile.data)
            /\ output' = InsertError(q, answer)
            /\ UNCHANGED resolved
     ELSE /\ insertSecurity(profile.data)
          /\ output' = FromFmp(q, answer, profile.data)
          /\ resolved' = resolved \cup
               {[ticker |-> q.value, isin |-> profile.data.isin]}

\* Variant: the fetched profile is returned without being cached.
TickerMiss_NoCache(q, answer) ==
  LET profile == fetchTickerProfile(q.value, q.apiKey, answer)
  IN IF q.apiKey = ""
       THEN /\ output' = [q EXCEPT !.source = "fmp", !.error = NoApiKey]
            /\ UNCHANGED <<tables, clock, call, prev, ncalls, resolved>>
     ELSE IF ~profile.ok
       THEN /\ output' = FmpError(q, answer, profile)
            /\ UNCHANGED <<tables, clock, call, prev, ncalls, resolved>>
     ELSE IF profile.data.ticker = NULL
       THEN /\ insertSecurityThrows(profile.data)
            /\ output' = InsertError(q, answer)
            /\ UNCHANGED resolved
     ELSE /\ output' = FromFmp(q, answer, profile.data)
          /\ resolved' = resolved \cup
               {[ticker |-> q.value, isin |-> profile.data.isin]}
          /\ UNCHANGED <<tables, clock, call, prev, ncalls>>

\* Variant: a failed fetch is cached too, as a Security known by ticker only.
TickerMiss_CacheFailure(q, answer) ==
  LET profile == fetchTickerProfile(q.value, q.apiKey, answer)
  IN IF q.apiKey = ""
       THEN /\ output' = [q EXCEPT !.source = "fmp", !.error = NoApiKey]
            /\ UNCHANGED <<tables, clock, call, prev, ncalls, resolved>>
     ELSE IF ~profile.ok
       THEN /\ insertSecurity([NoSecurity EXCEPT !.ticker = q.value,
                                                 !.exchange = "US",
                                                 !.source = "fmp"])
            /\ output' = FmpError(q, answer, profile)
            /\ UNCHANGED resolved
     ELSE IF profile.data.ticker = NULL
       THEN /\ insertSecurityThrows(profile.data)
            /\ output' = InsertError(q, answer)
            /\ UNCHANGED resolved
     ELSE /\ insertSecurity(profile.data)
          /\ output' = FromFmp(q, answer, profile.data)
          /\ resolved' = resolved \cup
               {[ticker |-> q.value, isin |-> profile.data.isin]}

\* case "ticker" of a cache miss: without an API key no call is made; else one
\* call of fetchTickerProfile, whose profile is cached and returned, or whose
\* error, or that of insertSecurity, is reported.
TickerMiss(q, answer) ==
  LET profile == fetchTickerProfile(q.value, q.apiKey, answer)
  IN IF q.apiKey = ""
       THEN /\ output' = [q EXCEPT !.source = "fmp", !.error = NoApiKey]
            /\ UNCHANGED <<tables, clock, call, prev, ncalls, resolved>>
     ELSE IF ~profile.ok
       THEN /\ output' = FmpError(q, answer, profile)
            /\ UNCHANGED <<tables, clock, call, prev, ncalls, resolved>>
     ELSE IF profile.data.ticker = NULL
       THEN /\ insertSecurityThrows(profile.data)
            /\ output' = InsertError(q, answer)
            /\ UNCHANGED resolved
     ELSE /\ insertSecurity(profile.data)
          /\ output' = FromFmp(q, answer, profile.data)
          /\ resolved' = resolved \cup
               {[ticker |-> q.value, isin |-> profile.data.isin]}

\* Variant: the ISIN is sent to fetchTickerProfile as if it were a symbol.
IsinMiss_ReverseLookup(q) ==
  /\ output' = [q EXCEPT !.fetches = 1, !.isin = q.value, !.source = "fmp",
                         !.error = FmpFailed, !.detail = "Ticker not found"]
  /\ UNCHANGED <<tables, clock, call, prev, ncalls, resolved>>

\* case "isin" of a cache miss.
IsinMiss(q) ==
  /\ output' = [q EXCEPT !.isin = q.value, !.source = "db",
                         !.error = IsinNotCached]
  /\ UNCHANGED <<tables, clock, call, prev, ncalls, resolved>>

\* cusipToIsin(designator.value) for the CUSIPs asked for, computed once.
ComputedIsins == [cusip \in QueryCusips |-> cusipToIsin(Chars(cusip))]

\* case "cusip" of a cache miss: the ISIN is computed and looked up.
CusipMiss(q) ==
  LET isin == ComputedIsins[q.value]
      securityByIsin == lookupByIsin(Db, Text(isin.value))
  IN /\ output' =
          IF Len(Chars(q.value)) # 9
            THEN [q EXCEPT !.source = "db", !.error = BadCusipLength]
          ELSE IF ~isin.ok
            THEN [q EXCEPT !.cusip = q.value, !.source = "computed",
                           !.error = IsinNotComputed, !.detail = isin.error]
          ELSE IF securityByIsin # NotFound
            THEN FromStore(q, securityByIsin, "computed")
          ELSE [q EXCEPT !.cusip = q.value, !.isin = Text(isin.value),
                         !.source = "computed", !.error = CusipNotCached]
     /\ UNCHANGED <<tables, clock, call, prev, ncalls, resolved>>

\* processDesignator for a designator that parsed and validated, with `answer`
\* what fetch() comes back with if it gets called.
processDesignator(type, value, apiKey, answer) ==
  LET q == [NoOutput EXCEPT !.type = type, !.value = value, !.apiKey = apiKey,
                            !.before = Db, !.known = resolved]
      security == StoreLookup(type, value)
  IN /\ IF security # NotFound
          THEN /\ output' = FromStore(q, security, "db")
               /\ UNCHANGED <<tables, clock, call, prev, ncalls, resolved>>
        ELSE IF type = "ticker" THEN TickerMiss(q, answer)
        ELSE IF type = "isin" THEN IsinMiss(q)
        ELSE CusipMiss(q)
     /\ UNCHANGED <<looked, applied, fetched>>

\* parseDesignator threw a CliError.
InvalidDesignator == "Invalid designator format"

\* processDesignator(input, db, config) with its try and catch: a line that
\* does not parse, and a throw of the store's lookup, end in an error record
\* like everything else.
processInput(designator, apiKey, answer, lookupThrows) ==
  LET q == [NoOutput EXCEPT !.type = designator.type,
                            !.value = designator.value, !.apiKey = apiKey,
                            !.before = Db, !.known = resolved]
  IN IF designator.type = "invalid"
       THEN /\ output' = [q EXCEPT !.source = "db", !.error = InvalidDesignator]
            /\ UNCHANGED <<tables, clock, call, prev, ncalls, resolved, looked,
                           applied, fetched>>
     ELSE IF lookupThrows
       THEN /\ output' = [q EXCEPT !.source = "db", !.error = Unexpected,
                                   !.detail = "database is locked"]
            /\ UNCHANGED <<tables, clock, call, prev, ncalls, resolved, looked,
                           applied, fetched>>
     ELSE processDesignator(designator.type, designator.value, apiKey, answer)

\* What a printed record is: a cache hit, a resolved miss, or an error.
Outcome(record) ==
  IF record.error # NULL THEN "error"
  ELSE IF record.source = "db" THEN "hit"
  ELSE "resolved"

\* Variant: the loop stops at the first record with an error.
MainLoop_StopOnError ==
  /\ batch.exit = -1
  /\ Len(batch.printed) < Len(batch.designators)
  /\ \A i \in 1..Len(batch.printed) : batch.printed[i] # "error"
  /\ LET designator == batch.designators[Len(batch.printed) + 1]
     IN \E answer \in BatchAnswers(designator), lookupThrows \in BOOLEAN :
          processInput(designator, batch.apiKey, answer, lookupThrows)
  /\ batch' = [batch EXCEPT !.printed = Append(@, Outcome(output'))]

\* main(): one turn of `for (const designator of designators)`: the next line
\* is processed to its record, and the record is printed.
MainLoop ==
  /\ batch.exit = -1
  /\ Len(batch.printed) < Len(batch.designators)
  /\ LET designator == batch.designators[Len(batch.printed) + 1]
     IN \E answer \in BatchAnswers(designator), lookupThrows \in BOOLEAN :
          processInput(designator, batch.apiKey, answer, lookupThrows)
  /\ batch' = [batch EXCEPT !.printed = Append(@, Outcome(output'))]

\* main(): after the loop, Deno.exit with 0 (all succeeded), 1 (some) or 2
\* (none).
MainExit ==
  LET errorCount ==
        Cardinality({i \in 1..Len(batch.printed) : batch.printed[i] = "error"})
      successCount == Len(batch.printed) - errorCount
  IN /\ batch.exit = -1
     /\ batch.designators # <<>>
     /\ Len(batch.printed) = Len(batch.designators)
     /\ batch' = [batch EXCEPT !.exit = IF errorCount = 0 THEN 0
                                        ELSE IF successCount > 0 THEN 1
                                        ELSE 2]
     /\ UNCHANGED <<tables, clock, call, prev, ncalls, looked, output, resolved,
                    applied, fetched>>

\* ------------------------------------------------------------------ claims
Inserted == call.op = "insertSecurity"

Rows(tbl) == { tbl[i] : i \in 1..Len(tbl) }

\* Owners of the rows of db that carry the call's keys.
TickerOwners(db, r) ==
  { x.security_id : x \in { y \in Rows(db.identifiers_ticker) :
                              y.ticker = r.ticker /\ y.exchange = r.exchange } }
IsinOwners(db, r) ==
  { x.security_id : x \in { y \in Rows(db.identifiers_isin) :
                              r.isin # NULL /\ y.isin = r.isin } }
CusipOwners(db, r) ==
  { x.security_id : x \in { y \in Rows(db.identifiers_cusip) :
                              r.cusip # NULL /\ y.cusip = r.cusip } }
CikOwners(db, r) ==
  { x.security_id : x \in { y \in Rows(db.identifiers_cik) :
                              r.cik # NULL /\ y.cik = r.cik } }

SameCounts(a, b) ==
  /\ Len(a.securities) = Len(b.securities)
  /\ Len(a.identifiers_ticker) = Len(b.identifiers_ticker)
  /\ Len(a.identifiers_isin) = Len(b.identifiers_isin)
  /\ Len(a.identifiers_cusip) = Len(b.identifiers_cusip)
  /\ Len(a.identifiers_cik) = Len(b.identifiers_cik)

\* C1. Upsert idempotence: when insertSecurity is called twice in a row with the
\* identical record, both calls return the same Security id and the second call
\* leaves the row count of securities and of every identifier table unchanged.
C1_UpsertIdempotent ==
  (Inserted /\ prev.op = "insertSecurity" /\ call.security = prev.security) =>
    /\ call.result = prev.result
    /\ SameCounts(Db, call.before)

\* The repeated call carried an ISIN and a CUSIP and ran on a store that already
\* held another Security.
C1_Witness ==
  /\ Inserted /\ prev.op = "insertSecurity" /\ call.security = prev.security
  /\ call.security.isin # NULL /\ call.security.cusip # NULL
  /\ Len(prev.before.securities) = 1
  /\ Len(securities) = 2

\* C2. Uniqueness: no two ticker rows share (ticker, exchange), no two ISIN rows
\* share the ISIN, no two CUSIP rows share the CUSIP.
C2_Uniqueness ==
  /\ \A i, j \in 1..Len(identifiers_ticker) :
       (/\ identifiers_ticker[i].ticker = identifiers_ticker[j].ticker
        /\ identifiers_ticker[i].exchange = identifiers_ticker[j].exchange) => i = j
  /\ \A i, j \in 1..Len(identifiers_isin) :
       identifiers_isin[i].isin = identifiers_isin[j].isin => i = j
  /\ \A i, j \in 1..Len(identifiers_cusip) :
       identifiers_cusip[i].cusip = identifiers_cusip[j].cusip => i = j

\* The latest call supplied a (ticker, exchange), an ISIN and a CUSIP that all had
\* a row already, and the store holds several ticker and ISIN rows.
C2_Witness ==
  /\ Inserted
  /\ TickerOwners(call.before, call.security) # {}
  /\ IsinOwners(call.before, call.security) # {}
  /\ CusipOwners(call.before, call.security) # {}
  /\ Len(identifiers_ticker) = 2
  /\ Len(identifiers_isin) = 2

\* C3. Referential integrity: the security_id of every ticker, ISIN, CUSIP and
\* CIK row is the id of a row of securities.
C3_ReferentialIntegrity ==
  LET ids == { securities[i].id : i \in 1..Len(securities) }
  IN /\ \A x \in Rows(identifiers_ticker) : x.security_id \in ids
     /\ \A x \in Rows(identifiers_isin) : x.security_id \in ids
     /\ \A x \in Rows(identifiers_cusip) : x.security_id \in ids
     /\ \A x \in Rows(identifiers_cik) : x.security_id \in ids

\* Every identifier table has rows, and there are three Securities to point at.
C3_Witness ==
  /\ Len(securities) = 3
  /\ Len(identifiers_ticker) = 3
  /\ Len(identifiers_isin) >= 1
  /\ Len(identifiers_cusip) >= 1
  /\ Len(identifiers_cik) >= 1

\* C4. Probe order: the id returned, which is the Security the record's ticker
\* row is attached to, is the owner of the existing (ticker, exchange) row if
\* there is one; otherwise the owner of the existing row of the supplied ISIN if
\* there is one; otherwise the owner of the existing row of the supplied CUSIP if
\* there is one.
C4_ProbeOrder ==
  Inserted =>
    LET r == call.security
        byTicker == TickerOwners(call.before, r)
        byIsin == IsinOwners(call.before, r)
        byCusip == CusipOwners(call.before, r)
    IN /\ TickerOwners(Db, r) = {call.result}
       /\ IF byTicker # {} THEN byTicker = {call.result}
          ELSE IF byIsin # {} THEN byIsin = {call.result}
          ELSE IF byCusip # {} THEN byCusip = {call.result}
          ELSE TRUE

\* The ticker was unknown and the supplied ISIN and CUSIP belonged to two
\* different Securities: the ISIN's owner was returned.
C4_Witness ==
  /\ Inserted
  /\ TickerOwners(call.before, call.security) = {}
  /\ IsinOwners(call.before, call.security) # {}
  /\ CusipOwners(call.before, call.security) # {}
  /\ IsinOwners(call.before, call.security) # CusipOwners(call.before, call.security)
  /\ IsinOwners(call.before, call.security) = {call.result}

\* C5. insertSecurity adds exactly one row to securities if and only if none of
\* the three probes matches an existing identifier row; when a probe matches,
\* the rows of securities are the same in number and in id.
C5_CreatesIffNoMatch ==
  Inserted =>
    LET r == call.security
        old == call.before.securities
        noMatch == /\ TickerOwners(call.before, r) = {}
                   /\ IsinOwners(call.before, r) = {}
                   /\ CusipOwners(call.before, r) = {}
    IN /\ noMatch <=> Len(securities) = Len(old) + 1
       /\ ~noMatch <=> Len(securities) = Len(old)
       /\ \A i \in 1..Len(old) : securities[i].id = old[i].id

\* One call missed on every probe and created a second Security; the next one
\* missed on the ticker, matched on the ISIN, and created none.
C5_Witness ==
  /\ Inserted /\ prev.op = "insertSecurity"
  /\ Len(prev.before.securities) = 1
  /\ Len(call.before.securities) = 2
  /\ TickerOwners(call.before, call.security) = {}
  /\ IsinOwners(call.before, call.security) # {}
  /\ Len(securities) = 2

\* C6. Read-your-writes with one identity: right after insertSecurity(r) returned
\* id, lookupByTicker(r.ticker, r.exchange) is non-null with that id, and so are
\* lookupByIsin(r.isin) and lookupByCusip(r.cusip) for each of the two supplied.
C6_ReadYourWrites ==
  Inserted =>
    LET r == call.security
        byTicker == lookupByTicker(Db, r.ticker, r.exchange)
        byIsin == lookupByIsin(Db, r.isin)
        byCusip == lookupByCusip(Db, r.cusip)
    IN /\ byTicker # NotFound /\ byTicker.id = call.result
       /\ r.isin # NULL => (byIsin # NotFound /\ byIsin.id = call.result)
       /\ r.cusip # NULL => (byCusip # NotFound /\ byCusip.id = call.result)

\* The call supplied an ISIN and a CUSIP, and the ISIN's row belonged to another
\* Security than the one returned.
C6_Witness ==
  /\ Inserted
  /\ call.security.cusip # NULL
  /\ IsinOwners(call.before, call.security) # {}
  /\ IsinOwners(call.before, call.security) # {call.result}

\* Row i of the table `old` became row i of `new` with nothing but source and
\* fetched_at rewritten.
OnlyProvenanceChanged(old, new, i) ==
  /\ i <= Len(new)
  /\ new[i] = [old[i] EXCEPT !.source = new[i].source,
                             !.fetched_at = new[i].fetched_at]

\* C7 as claimed: a row whose identifier value the call supplies again is
\* updated in place with only source and timestamp changed, its owning Security
\* the same before and after.
C7_OwnerUnchanged ==
  Inserted =>
    LET r == call.security
        b == call.before
    IN /\ \A i \in TickerRows(b.identifiers_ticker, r.ticker, r.exchange) :
            OnlyProvenanceChanged(b.identifiers_ticker, identifiers_ticker, i)
       /\ \A i \in IsinRows(b.identifiers_isin, r.isin) :
            OnlyProvenanceChanged(b.identifiers_isin, identifiers_isin, i)
       /\ \A i \in CusipRows(b.identifiers_cusip, r.cusip) :
            OnlyProvenanceChanged(b.identifiers_cusip, identifiers_cusip, i)
       /\ \A i \in CikRows(b.identifiers_cik, r.cik) :
            OnlyProvenanceChanged(b.identifiers_cik, identifiers_cik, i)

\* Row i of `old` became row i of `new`, with source and timestamp taken from the
\* call and the owner set to the Security the call returned.
RewrittenInPlace(old, new, i) ==
  /\ i <= Len(new)
  /\ new[i] = [old[i] EXCEPT !.security_id = call.result,
                             !.source = call.security.source,
                             !.fetched_at = call.timestamp]

\* C7 as amended: a row whose identifier value the call supplies again is
\* updated in place, its source and timestamp overwritten and its owning
\* Security set to the one the call resolved to.  The (ticker, exchange) row
\* always keeps its owner; an ISIN, CUSIP or CIK row keeps it exactly when it
\* already belonged to the resolved Security.  Rows of other values stay as
\* they were.
C7_UpdatedInPlace ==
  Inserted =>
    LET r == call.security
        b == call.before
    IN /\ \A i \in 1..Len(b.identifiers_ticker) :
            IF i \in TickerRows(b.identifiers_ticker, r.ticker, r.exchange)
              THEN /\ RewrittenInPlace(b.identifiers_ticker, identifiers_ticker, i)
                   /\ identifiers_ticker[i].security_id =
                        b.identifiers_ticker[i].security_id
              ELSE identifiers_ticker[i] = b.identifiers_ticker[i]
       /\ \A i \in 1..Len(b.identifiers_isin) :
            IF i \in IsinRows(b.identifiers_isin, r.isin)
              THEN RewrittenInPlace(b.identifiers_isin, identifiers_isin, i)
              ELSE identifiers_isin[i] = b.identifiers_isin[i]
       /\ \A i \in 1..Len(b.identifiers_cusip) :
            IF i \in CusipRows(b.identifiers_cusip, r.cusip)
              THEN RewrittenInPlace(b.identifiers_cusip, identifiers_cusip, i)
              ELSE identifiers_cusip[i] = b.identifiers_cusip[i]
       /\ \A i \in 1..Len(b.identifiers_cik) :
            IF i \in CikRows(b.identifiers_cik, r.cik)
              THEN RewrittenInPlace(b.identifiers_cik, identifiers_cik, i)
              ELSE identifiers_cik[i] = b.identifiers_cik[i]

\* The call supplied a known (ticker, exchange) together with an ISIN and a CIK
\* whose rows belonged to another Security, and both rows were re-pointed.
C7_Witness ==
  /\ Inserted
  /\ TickerOwners(call.before, call.security) = {call.result}
  /\ IsinOwners(call.before, call.security) \notin {{}, {call.result}}
  /\ CikOwners(call.before, call.security) \notin {{}, {call.result}}
  /\ IsinOwners(Db, call.security) = {call.result}
  /\ CikOwners(Db, call.security) = {call.result}

\* C8 as claimed: after insertSecurity(r) with ticker, exchange, isin and cusip
\* all supplied, each of the three lookups by r's keys returns a record whose
\* ticker, isin, cusip and name are r's.
C8_LookupReturnsUpserted ==
  (Inserted /\ call.security.isin # NULL /\ call.security.cusip # NULL) =>
    LET r == call.security
        Same(res) == /\ res.ticker = r.ticker /\ res.isin = r.isin
                     /\ res.cusip = r.cusip /\ res.name = r.name
    IN /\ Same(lookupByTicker(Db, r.ticker, r.exchange))
       /\ Same(lookupByIsin(Db, r.isin))
       /\ Same(lookupByCusip(Db, r.cusip))

\* C9. Partial-data tolerance: a call whose record has no isin, cusip or cik
\* returns the id of a Security and leaves the ISIN, CUSIP and CIK tables as
\* they were; and lookupByTicker on a Security without ISIN and CUSIP rows
\* returns a record, with isin and cusip null.
C9_PartialData ==
  /\ (Inserted /\ call.security.isin = NULL /\ call.security.cusip = NULL
               /\ call.security.cik = NULL) =>
       /\ call.result \in 1..Len(securities)
       /\ identifiers_isin = call.before.identifiers_isin
       /\ identifiers_cusip = call.before.identifiers_cusip
       /\ identifiers_cik = call.before.identifiers_cik
  /\ \A x \in Rows(identifiers_ticker) :
       (/\ OwnedRows(identifiers_isin, x.security_id) = {}
        /\ OwnedRows(identifiers_cusip, x.security_id) = {}) =>
         LET res == lookupByTicker(Db, x.ticker, x.exchange)
         IN /\ res # NotFound
            /\ res.id = x.security_id
            /\ res.isin = NULL
            /\ res.cusip = NULL

\* A ticker-only record was upserted into a store that holds ISIN, CUSIP and CIK
\* rows of another Security, and its own Security has none.
C9_Witness ==
  /\ Inserted
  /\ call.security.isin = NULL /\ call.security.cusip = NULL
  /\ call.security.cik = NULL
  /\ Len(call.before.identifiers_isin) >= 1
  /\ Len(call.before.identifiers_cusip) >= 1
  /\ Len(call.before.identifiers_cik) >= 1
  /\ OwnedRows(identifiers_isin, call.result) = {}
  /\ OwnedRows(identifiers_cusip, call.result) = {}
  /\ lookupByTicker(Db, call.security.ticker, call.security.exchange).isin = NULL

\* Two upserts in a row of one ticker on two exchanges, sharing no ISIN and no
\* CUSIP, into a store that held none of the two records' keys.
TwoExchanges ==
  LET r1 == prev.security
      r2 == call.security
      b == prev.before
  IN /\ Inserted /\ prev.op = "insertSecurity"
     /\ r1.ticker = r2.ticker /\ r1.exchange # r2.exchange
     /\ ~(r1.isin # NULL /\ r1.isin = r2.isin)
     /\ ~(r1.cusip # NULL /\ r1.cusip = r2.cusip)
     /\ TickerOwners(b, r1) = {} /\ TickerOwners(b, r2) = {}
     /\ IsinOwners(b, r1) = {} /\ IsinOwners(b, r2) = {}
     /\ CusipOwners(b, r1) = {} /\ CusipOwners(b, r2) = {}

OwnersOfTicker(db, t) ==
  { x.security_id : x \in { y \in Rows(db.identifiers_ticker) : y.ticker = t } }

C12_MissIsNull ==
  /\ looked.op = "lookupByTicker" =>
       (looked.result = NotFound <=>
          IF looked.exchange = NULL
            THEN OwnersOfTicker(Db, looked.ticker) = {}
            ELSE ~\E x \in Rows(identifiers_ticker) :
                    x.ticker = looked.ticker /\ x.exchange = looked.exchange)
  /\ looked.op = "lookupByIsin" =>
       (looked.result = NotFound <=>
          ~\E x \in Rows(identifiers_isin) : x.isin = looked.isin)
  /\ looked.op = "lookupByCusip" =>
       (looked.result = NotFound <=>
          ~\E x \in Rows(identifiers_cusip) : x.cusip = looked.cusip)

\* A lookup by ISIN hit a Security that has no CUSIP row, in a store where
\* another ticker lookup key would miss.
C12_Witness ==
  /\ looked.op = "lookupByIsin"
  /\ looked.result # NotFound
  /\ looked.result.cusip = NULL
  /\ Len(identifiers_cusip) = 0
  /\ lookupByTicker(Db, "NOTFOUND", "NYSE") = NotFound

\* The latest call resolved to a Security that existed before it.
ResolvedToExisting ==
  Inserted /\ call.result \in 1..Len(call.before.securities)

\* C13. Last-write-wins metadata: after an insertSecurity call that resolves to
\* an existing Security, that Security's name, security_type and market_sector
\* are those of the call's record, an absent type or sector stored as absent,
\* whatever was stored before; no other Security's descriptive fields change.
C13_LastWriteWins ==
  ResolvedToExisting =>
    LET r == call.security
        old == call.before.securities
        s == securities[call.result]
    IN /\ s.name = r.name
       /\ s.security_type = r.security_type
       /\ s.market_sector = r.market_sector
       /\ Len(securities) = Len(old)
       /\ \A i \in 1..Len(old) :
            i # call.result =>
              /\ securities[i].name = old[i].name
              /\ securities[i].security_type = old[i].security_type
              /\ securities[i].market_sector = old[i].market_sector

\* A record without type and sector overwrote a Security that had both and
\* another name, while a second Security stood by.
C13_Witness ==
  /\ ResolvedToExisting
  /\ Len(securities) = 2
  /\ call.security.security_type = NULL
  /\ call.before.securities[call.result].security_type # NULL
  /\ call.before.securities[call.result].market_sector # NULL
  /\ call.before.securities[call.result].name # call.security.name
  /\ securities[call.result].security_type = NULL

\* C14 as claimed: a record that omits the exchange has its ticker row stored
\* under one fixed default exchange token, never a null exchange, so that a
\* second upsert of the same ticker without exchange matches that row and
\* creates neither a second Security nor a second ticker row.
C14_DefaultExchange ==
  (Inserted /\ call.security.exchange = NULL) =>
    /\ \A x \in Rows(identifiers_ticker) : x.exchange # NULL
    /\ (/\ prev.op = "insertSecurity"
        /\ prev.security.exchange = NULL
        /\ prev.security.ticker = call.security.ticker) =>
          /\ call.result = prev.result
          /\ Len(securities) = Len(call.before.securities)
          /\ Len(identifiers_ticker) = Len(call.before.identifiers_ticker)

SecurityIds(tbl) == { tbl[i].id : i \in 1..Len(tbl) }

\* C15. Security rows are never deleted and their ids are stable: over any
\* sequence of insertSecurity and lookup calls the set of Security ids only
\* grows, and an id returned by an earlier insertSecurity still exists.
C15_IdsStable ==
  /\ SecurityIds(call.before.securities) \subseteq SecurityIds(securities)
  /\ SecurityIds(prev.before.securities) \subseteq SecurityIds(securities)
  /\ Inserted => call.result \in SecurityIds(securities)
  /\ prev.op = "insertSecurity" => prev.result \in SecurityIds(securities)

\* Two calls ago a Security was created; the two calls since, one of them
\* updating that very Security, and a lookup after them, left its id in place.
C15_Witness ==
  /\ Inserted /\ prev.op = "insertSecurity"
  /\ looked.op = "lookupByTicker"
  /\ Len(prev.before.securities) = 1
  /\ Len(securities) = 2
  /\ call.result = 1
  /\ 1 \in SecurityIds(securities)

\* The latest designator was a ticker the store did not hold / did hold.
TickerQueryMissed ==
  /\ output.type = "ticker"
  /\ lookupByTicker(output.before, output.value, NULL) = NotFound

TickerQueryHit ==
  /\ output.type = "ticker"
  /\ lookupByTicker(output.before, output.value, NULL) # NotFound

\* C16 (as stated): a ticker query that misses the store makes exactly one
\* call of the External Resolver.  Violated: without an API key the engine
\* makes none.
C16_OneCallOnMiss ==
  TickerQueryMissed => output.fetches = 1

\* C16 (amended): a ticker query probes the store with lookupByTicker first.
\* On a hit it returns the stored record with source "db" and calls the
\* resolver not at all.  On a miss with an API key configured it calls the
\* resolver exactly once and, on success, upserts the returned record before
\* returning it with source "fmp"; on a miss with no API key configured it
\* calls the resolver not at all and returns an error, the store unchanged.
\* No query of any kind makes more than one call; a failed call is not
\* retried.
C16_TickerQuery ==
  /\ output.fetches <= 1
  /\ output.type \in {"isin", "cusip"} => output.fetches = 0
  /\ TickerQueryHit =>
       /\ output.fetches = 0
       /\ output.source = "db" /\ output.error = NULL
       /\ output.ticker = output.value
       /\ Db = output.before
  /\ TickerQueryMissed /\ output.apiKey = "" =>
       /\ output.fetches = 0
       /\ output.error = NoApiKey
       /\ Db = output.before
  /\ TickerQueryMissed /\ output.apiKey # "" =>
       /\ output.fetches = 1
       /\ output.source = "fmp"
       /\ output.error = NULL =>
            /\ call.op = "insertSecurity"
            /\ call.before = output.before
            /\ call.security.ticker = output.ticker
            /\ call.security.isin = output.isin
            /\ call.security.cusip = output.cusip
            /\ call.security.name = output.name
            /\ lookupByTicker(Db, output.value, NULL) # NotFound

\* A miss with an API key, resolved and cached; the store held the other
\* ticker already.
C16_Witness ==
  /\ TickerQueryMissed /\ output.apiKey = "test-api-key"
  /\ output.fetches = 1 /\ output.error = NULL /\ output.source = "fmp"
  /\ Len(output.before.securities) = 1
  /\ Len(securities) = 2
  /\ lookupByTicker(Db, output.value, NULL) # NotFound

\* The profiles resolved before the latest designator that answer it.
KnownByTicker ==
  { r \in output.known : output.type = "ticker" /\ r.ticker = output.value }

KnownByIsin ==
  { r \in output.known : output.type = "isin" /\ r.isin = output.value }

\* C17: once a ticker query has missed the store and been resolved by the
\* External Resolver, a later query for that ticker is answered from the store
\* (source "db") with no resolver call, and a query for the ISIN the
\* resolution returned is a store hit.
C17_CacheEffect ==
  /\ KnownByTicker # {} =>
       /\ output.fetches = 0
       /\ output.source = "db" /\ output.error = NULL
       /\ output.ticker = output.value
       /\ Db = output.before
  /\ KnownByIsin # {} =>
       /\ output.fetches = 0
       /\ output.source = "db" /\ output.error = NULL
       /\ output.isin = output.value
       /\ lookupByIsin(output.before, output.value) # NotFound

\* A ticker resolved earlier, together with an ISIN, is asked for again with
\* an API key at hand, and answered from the store, which holds that ISIN.
C17_Witness ==
  /\ \E r \in KnownByTicker :
       r.isin # NULL /\ lookupByIsin(Db, r.isin) # NotFound
  /\ output.apiKey = "test-api-key"
  /\ output.source = "db" /\ output.fetches = 0
  /\ output.name # NULL

\* The latest designator was an ISIN or a CUSIP the store could not answer:
\* for a CUSIP, neither by the CUSIP nor by the ISIN computed from it.
ReverseQueryMissed ==
  \/ /\ output.type = "isin"
     /\ lookupByIsin(output.before, output.value) = NotFound
  \/ /\ output.type = "cusip"
     /\ lookupByCusip(output.before, output.value) = NotFound
     /\ lookupByIsin(output.before,
                     Text(cusipToIsin(Chars(output.value)).value)) = NotFound

\* C18: an ISIN or CUSIP query that misses the store is terminal: no call of
\* the External Resolver, the store unchanged, and a miss outcome that points
\* at the ticker lookup, not a fault.
C18_ReverseMissTerminal ==
  ReverseQueryMissed =>
    /\ output.fetches = 0
    /\ output.response = NoAnswer
    /\ Db = output.before
    /\ output.ticker = NULL
    /\ output.type = "isin" =>
         output.error = IsinNotCached /\ output.isin = output.value
    /\ output.type = "cusip" =>
         output.error = CusipNotCached /\ output.cusip = output.value

\* An ISIN missed with an API key at hand, in a store that holds a Security
\* under the other ISIN.
C18_Witness ==
  /\ ReverseQueryMissed
  /\ output.type = "isin"
  /\ output.apiKey = "test-api-key"
  /\ Len(identifiers_isin) = 1
  /\ output.error = IsinNotCached

\* The ISIN computed from the CUSIP asked for, and what the store held when the
\* query started: under that ISIN, and under the CUSIP itself.
ComputedIsin ==
  Text(cusipToIsin(Chars(output.value)).value)

StoredByComputedIsin ==
  lookupByIsin(output.before, ComputedIsin)

StoredByCusip ==
  lookupByCusip(output.before, output.value)

\* C19 (as stated): a CUSIP query computes I = cusipToIsin(cusip) and probes
\* the store with lookupByIsin(I): a hit is returned with source "computed", a
\* miss carries I.  Violated: the engine probes lookupByCusip first, and a hit
\* there is returned with source "db", whatever lookupByIsin(I) would find.
C19_ComputedIsinOnly ==
  output.type = "cusip" =>
    IF StoredByComputedIsin # NotFound
      THEN /\ output.source = "computed" /\ output.error = NULL
           /\ output.ticker = StoredByComputedIsin.ticker
      ELSE /\ output.error # NULL
           /\ output.isin = ComputedIsin

\* C19 (amended): a CUSIP query first probes the store with
\* lookupByCusip(cusip); a hit is returned with source "db".  Otherwise the
\* engine computes I = cusipToIsin(cusip) and probes lookupByIsin(I): a hit is
\* returned with source "computed", and a miss carries the CUSIP and I (for
\* "88160R101", US88160R1014).
C19_CusipQuery ==
  output.type = "cusip" =>
    /\ StoredByCusip # NotFound =>
         /\ output.source = "db" /\ output.error = NULL
         /\ output.ticker = StoredByCusip.ticker
         /\ output.isin = StoredByCusip.isin
         /\ output.cusip = output.value
    /\ StoredByCusip = NotFound /\ StoredByComputedIsin # NotFound =>
         /\ output.source = "computed" /\ output.error = NULL
         /\ output.ticker = StoredByComputedIsin.ticker
         /\ output.name = StoredByComputedIsin.name
         /\ output.isin = ComputedIsin
         /\ output.cusip = StoredByComputedIsin.cusip
    /\ StoredByCusip = NotFound /\ StoredByComputedIsin = NotFound =>
         /\ output.source = "computed" /\ output.error = CusipNotCached
         /\ output.ticker = NULL
         /\ output.cusip = output.value
         /\ output.isin = ComputedIsin
         /\ output.value = "88160R101" => output.isin = "US88160R1014"
         /\ output.value = "037833100" => output.isin = "US0378331005"

\* 88160R101 is asked for in a store that holds US88160R1014 but not the
\* CUSIP: the record is found through the computed ISIN.
C19_Witness ==
  /\ output.type = "cusip" /\ output.value = "88160R101"
  /\ StoredByCusip = NotFound
  /\ StoredByComputedIsin # NotFound
  /\ output.source = "computed" /\ output.isin = "US88160R1014"
  /\ output.ticker \in QueryTickers

\* The latest designator was a ticker whose call of the External Resolver
\* failed: fetchTickerProfile threw.
ResolverFailed ==
  /\ output.type = "ticker" /\ output.fetches = 1
  /\ output.raised # NULL

UpperAlphanumeric(chars) ==
  \A i \in 1..Len(chars) :
    IndexOf(DigitChars, chars[i]) # 0 \/ IndexOf(UpperChars, chars[i]) # 0

\* The reference algorithm: each character's number (a digit its value, a
\* letter 10..35) written in decimal, the digits numbered from the right-hand
\* end starting at 1, each digit at an odd place doubled and, above 9, reduced
\* to the sum of its digits, all added up, and 10 minus the last digit of the
\* sum, 10 counting as 0.
ReferenceCheckDigit(base) ==
  LET number(char) ==
        IF IndexOf(DigitChars, char) # 0
          THEN IndexOf(DigitChars, char) - 1
          ELSE IndexOf(UpperChars, char) + 9
      decimal(n) == IF n < 10 THEN <<n>> ELSE <<n \div 10, n % 10>>
      expanded[i \in 0..Len(base)] ==
        IF i = 0 THEN <<>> ELSE expanded[i - 1] \o decimal(number(base[i]))
      digits == expanded[Len(base)]
      fromRight(place) == digits[Len(digits) + 1 - place]
      reduced(d) == IF d > 9 THEN d - 9 ELSE d
      added[place \in 0..Len(digits)] ==
        IF place = 0 THEN 0
        ELSE added[place - 1] +
             IF place % 2 = 1 THEN reduced(2 * fromRight(place))
                              ELSE fromRight(place)
      last == added[Len(digits)] % 10
  IN IF last = 0 THEN 0 ELSE 10 - last

\* C22: for every 11-character base over 0-9 and A-Z computeIsinCheckDigit
\* returns what the reference algorithm gives, a single digit 0..9; it is 5 for
\* US037833100, 5 for US594918104 and 4 for US88160R101.
C22_ReferenceAlgorithm ==
  /\ /\ applied.fn = "computeIsinCheckDigit" /\ applied.done
     /\ Len(applied.arg) = 11 /\ UpperAlphanumeric(applied.arg)
     => /\ applied.ok
        /\ applied.digit = ReferenceCheckDigit(applied.arg)
        /\ applied.digit \in 0..9
  /\ computeIsinCheckDigit(
       <<"U", "S", "0", "3", "7", "8", "3", "3", "1", "0", "0">>).digit = 5
  /\ computeIsinCheckDigit(
       <<"U", "S", "5", "9", "4", "9", "1", "8", "1", "0", "4">>).digit = 5
  /\ computeIsinCheckDigit(
       <<"U", "S", "8", "8", "1", "6", "0", "R", "1", "0", "1">>).digit = 4

\* The check digit of US88160R101 has been computed: 4.
C22_Witness ==
  /\ applied.fn = "computeIsinCheckDigit" /\ applied.done /\ applied.ok
  /\ applied.arg = <<"U", "S", "8", "8", "1", "6", "0", "R", "1", "0", "1">>
  /\ applied.digit = 4

\* A string of ASCII letters, of either case, and digits only.
Alphanumeric(chars) ==
  \A i \in 1..Len(chars) :
    \/ IndexOf(DigitChars, chars[i]) # 0
    \/ IndexOf(UpperChars, chars[i]) # 0
    \/ IndexOf(LowerChars, chars[i]) # 0

\* The string with every letter in upper case / in lower case.
InUpperCase(chars) ==
  [i \in 1..Len(chars) |->
     IF \E k \in 1..26 : LowerChars[k] = chars[i]
       THEN UpperChars[CHOOSE k \in 1..26 : LowerChars[k] = chars[i]]
       ELSE chars[i]]

InLowerCase(chars) ==
  [i \in 1..Len(chars) |->
     IF \E k \in 1..26 : UpperChars[k] = chars[i]
       THEN LowerChars[CHOOSE k \in 1..26 : UpperChars[k] = chars[i]]
       ELSE chars[i]]

\* The latest call was cusipToIsin on a 9-character alphanumeric string.
ConvertedCusip ==
  /\ applied.fn = "cusipToIsin" /\ applied.done
  /\ Len(applied.arg) = 9 /\ Alphanumeric(applied.arg)

\* C23: for every 9-character alphanumeric CUSIP C, in upper or lower case,
\* validateIsin(cusipToIsin(C)).valid is true.
C23_RoundTrip ==
  ConvertedCusip =>
    /\ applied.ok
    /\ validateIsin(applied.value).ok
    /\ validateIsin(applied.value).valid
    /\ validateIsin(applied.value).error = NULL

\* 88160r101, typed in lower case, has been converted to an ISIN that
\* validates.
C23_Witness ==
  /\ ConvertedCusip
  /\ applied.arg = <<"8", "8", "1", "6", "0", "r", "1", "0", "1">>
  /\ applied.ok
  /\ validateIsin(applied.value).valid

\* The latest call was validateIsin.
Validated ==
  applied.fn = "validateIsin" /\ applied.done

\* C24: validateIsin never throws: it returns valid and no error, or invalid
\* and a non-empty message, also when computeIsinCheckDigit rejects a character
\* among the first 11.
C24_NeverThrows ==
  Validated =>
    /\ applied.ok
    /\ \/ applied.valid /\ applied.error = NULL
       \/ ~applied.valid /\ applied.error # NULL /\ applied.error # ""

\* A 12-character string with a country code and a digit at the end, and a
\* lowercase letter in between, was found invalid.
C24_Witness ==
  /\ Validated /\ applied.ok /\ ~applied.valid
  /\ Len(applied.arg) = 12
  /\ applied.arg[1] = "U" /\ applied.arg[2] = "S" /\ applied.arg[12] = "5"
  /\ ~UpperAlphanumeric(SubSeq(applied.arg, 1, 11))
  /\ applied.error = "Invalid character in ISIN"

\* The failure conditions of validateIsin, on the string it was given.
WrongLength == Len(applied.arg) # 12
NoCountryCode ==
  \E i \in {1, 2} : \A k \in 1..26 : UpperChars[k] # applied.arg[i]
NoCheckNumber ==
  \A k \in 1..10 : DigitChars[k] # applied.arg[12]
WrongCheckDigit ==
  DigitChars[ReferenceCheckDigit(SubSeq(applied.arg, 1, 11)) + 1]
    # applied.arg[12]

\* C25 (as stated): the reasons in their precedence are length, country code,
\* "Check digit must be a number", "Invalid check digit", and there is no
\* other.  Violated: a character among the first 11 that computeIsinCheckDigit
\* rejects gives that function's message.
C25_FourReasons ==
  Validated =>
    IF WrongLength
      THEN applied.error = "ISIN must be exactly 12 characters"
    ELSE IF NoCountryCode
      THEN applied.error =
             "ISIN must start with 2 uppercase letters (country code)"
    ELSE IF NoCheckNumber
      THEN applied.error = "Check digit must be a number"
    ELSE applied.valid \/ applied.error = "Invalid check digit"

\* C25 (amended): validateIsin reports one reason in a fixed precedence:
\* length not 12; else the first two characters not both uppercase letters;
\* else a non-digit 12th character, "Check digit must be a number"; else a
\* character among the first 11 that is neither a digit nor an uppercase
\* letter, the invalid-character reason; else a check digit that differs from
\* the computed one, "Invalid check digit".  The length reason differs from
\* the check-digit reason, and the result is valid exactly when none of the
\* conditions holds.
C25_ReasonPrecedence ==
  Validated =>
    IF WrongLength
      THEN /\ ~applied.valid
           /\ applied.error = "ISIN must be exactly 12 characters"
           /\ applied.error # "Invalid check digit"
    ELSE IF NoCountryCode
      THEN /\ ~applied.valid
           /\ applied.error =
                "ISIN must start with 2 uppercase letters (country code)"
    ELSE IF NoCheckNumber
      THEN ~applied.valid /\ applied.error = "Check digit must be a number"
    ELSE IF ~UpperAlphanumeric(SubSeq(applied.arg, 1, 11))
      THEN ~applied.valid /\ applied.error = "Invalid character in ISIN"
    ELSE IF WrongCheckDigit
      THEN ~applied.valid /\ applied.error = "Invalid check digit"
    ELSE applied.valid /\ applied.error = NULL

\* 0378331005XX has neither a country code nor a digit at the end: the
\* country code is the reason given.
C25_Witness ==
  /\ Validated
  /\ ~WrongLength /\ NoCountryCode /\ NoCheckNumber
  /\ applied.error = "ISIN must start with 2 uppercase letters (country code)"

\* The string validateIsin was given, with `digit` as its 12th character.
Tampered(digit) ==
  [applied.arg EXCEPT ![12] = digit]

\* C26: for every ISIN validateIsin accepts, the string with any other digit
\* as its 12th character is rejected with "Invalid check digit"; so is
\* US0378331006, against the correct US0378331005.
C26_TamperDetection ==
  /\ Validated /\ applied.valid =>
       \A k \in 1..10 :
         DigitChars[k] # applied.arg[12] =>
           /\ ~validateIsin(Tampered(DigitChars[k])).valid
           /\ validateIsin(Tampered(DigitChars[k])).error
                = "Invalid check digit"
  /\ validateIsin(
       <<"U", "S", "0", "3", "7", "8", "3", "3", "1", "0", "0", "5">>).valid
  /\ validateIsin(
       <<"U", "S", "0", "3", "7", "8", "3", "3", "1", "0", "0", "6">>).error
       = "Invalid check digit"

\* US0378331005 was accepted; with a 6 at the end it is not.
C26_Witness ==
  /\ Validated /\ applied.valid
  /\ applied.arg =
       <<"U", "S", "0", "3", "7", "8", "3", "3", "1", "0", "0", "5">>
  /\ ~validateIsin(Tampered("6")).valid

\* C27: for every 9-character alphanumeric CUSIP C, cusipToIsin(C) has 12
\* characters and is "US", C in upper case, and the digit
\* computeIsinCheckDigit gives for "US" + C in upper case; it is the same
\* for C in lower, upper or mixed case, and without its first 2 and its last
\* character it is C in upper case.
C27_CusipToIsinStructure ==
  ConvertedCusip =>
    LET upper == InUpperCase(applied.arg)
        base == <<"U", "S">> \o upper
    IN /\ applied.ok
       /\ Len(applied.value) = 12
       /\ computeIsinCheckDigit(base).ok
       /\ applied.value =
            base \o <<DigitChars[computeIsinCheckDigit(base).digit + 1]>>
       /\ applied.value[12] = DigitChars[ReferenceCheckDigit(base) + 1]
       /\ cusipToIsin(upper).value = applied.value
       /\ cusipToIsin(InLowerCase(applied.arg)).value = applied.value
       /\ SubSeq(applied.value, 3, 11) = upper

\* A CUSIP typed in mixed case was converted.
C27_Witness ==
  /\ ConvertedCusip /\ applied.ok
  /\ applied.arg # InUpperCase(applied.arg)
  /\ applied.arg # InLowerCase(applied.arg)
  /\ SubSeq(applied.value, 3, 11) = InUpperCase(applied.arg)

\* C28: cusipToIsin returns no ISIN for malformed input: a length other than
\* 9 gives the length error, bad characters or not; 9 characters, one of them
\* not alphanumeric, give the invalid-characters error.
C28_CusipRejected ==
  applied.fn = "cusipToIsin" /\ applied.done =>
    /\ Len(applied.arg) # 9 =>
         /\ ~applied.ok /\ applied.value = <<>>
         /\ applied.error = "CUSIP must be exactly 9 characters"
    /\ Len(applied.arg) = 9 /\ ~Alphanumeric(applied.arg) =>
         /\ ~applied.ok /\ applied.value = <<>>
         /\ applied.error = "CUSIP contains invalid characters"

\* A string of 7 characters, one of them "!", got the length error.
C28_Witness ==
  /\ applied.fn = "cusipToIsin" /\ applied.done /\ ~applied.ok
  /\ Len(applied.arg) = 7 /\ ~Alphanumeric(applied.arg)
  /\ applied.error = "CUSIP must be exactly 9 characters"

\* C29: computeIsinCheckDigit fails, returning no digit, for every base that
\* is not 11 characters long or holds a character other than 0-9 and A-Z,
\* lowercase letters included; the length is checked first.
C29_BaseRejected ==
  applied.fn = "computeIsinCheckDigit" /\ applied.done =>
    /\ Len(applied.arg) # 11 =>
         /\ ~applied.ok
         /\ applied.error =
              "Base must be exactly 11 characters (country code + NSIN)"
    /\ Len(applied.arg) = 11 /\ ~UpperAlphanumeric(applied.arg) =>
         /\ ~applied.ok
         /\ applied.error = "Invalid character in ISIN"
    /\ applied.ok <=> Len(applied.arg) = 11 /\ UpperAlphanumeric(applied.arg)

\* An 11-character base whose only flaw is a lowercase letter was rejected.
C29_Witness ==
  /\ applied.fn = "computeIsinCheckDigit" /\ applied.done /\ ~applied.ok
  /\ Len(applied.arg) = 11
  /\ Alphanumeric(applied.arg) /\ ~UpperAlphanumeric(applied.arg)
  /\ applied.error = "Invalid character in ISIN"

\* fetch came back with a response the rate limit is read from: status 429,
\* or status 200 and an array of one object whose message is a string that
\* contains "rate limit".
RateLimitResponse(answer) ==
  /\ answer.rejects = "no"
  /\ \/ answer.status = 429
     \/ /\ answer.status = 200
        /\ answer.body.kind = "array"
        /\ Len(answer.body.elements) = 1
        /\ answer.body.elements[1].kind = "object"
        /\ answer.body.elements[1].message.type = "string"
        /\ Includes(answer.body.elements[1].message.text, "rate limit")

\* The call of fetchTickerProfile threw.
FetchFailed == fetched.done /\ ~fetched.ok

\* C30: a failed fetchTickerProfile raises FmpRateLimitError exactly when the
\* response has status 429 or is a 200 array of one element whose message is
\* a string containing "rate limit"; every other failure (authentication,
\* server error, network error, malformed body, ticker not found) raises an
\* FmpApiError that is not an FmpRateLimitError.
C30_RateLimitClassification ==
  FetchFailed =>
    IF fetched.requests = 1 /\ RateLimitResponse(fetched.answer)
      THEN fetched.name = "FmpRateLimitError"
      ELSE fetched.name = "FmpApiError"

\* Every line processed so far has its one record, and the exit code counts
\* them.
OneRecordEach ==
  /\ Len(batch.printed) <= Len(batch.designators)
  /\ \A i \in 1..Len(batch.printed) :
       batch.printed[i] \in {"hit", "resolved", "error"}
  /\ batch.exit # -1 =>
       /\ Len(batch.printed) = Len(batch.designators)
       /\ batch.exit = 0 <=> \A i \in 1..Len(batch.printed) :
                               batch.printed[i] # "error"
       /\ batch.exit = 2 <=> \A i \in 1..Len(batch.printed) :
                               batch.printed[i] = "error"

\* C21: the lines of a batch are processed one at a time to completion, each
\* ends in exactly one record (hit, resolved miss, or reported error), and a
\* validation, store or resolver failure of one line never keeps the lines
\* after it from being processed: the run gets to its end with a record for
\* every line.
C21_BatchIsolation ==
  /\ []OneRecordEach
  /\ <>(batch.exit # -1)

\* A line that does not validate, then a resolver or store failure, then a
\* ticker that is resolved.
C21_Witness ==
  /\ batch.exit = 1
  /\ Len(batch.designators) = 3
  /\ batch.designators[1].type = "invalid"
  /\ batch.printed = <<"error", "error", "resolved">>

\* `inner` is `chars` without the spaces at its two ends.
BlankAround(inner, chars) ==
  /\ inner = <<>> \/ (inner[1] # " " /\ inner[Len(inner)] # " ")
  /\ \E a \in 0..Len(chars) :
       /\ a + Len(inner) <= Len(chars)
       /\ \A i \in 1..Len(chars) :
            IF i <= a \/ i > a + Len(inner) THEN chars[i] = " "
            ELSE chars[i] = inner[i - a]

WithoutBlanks(chars) ==
  CHOOSE inner \in {SubSeq(chars, a, b) : a \in 1..(Len(chars) + 1),
                                         b \in 0..Len(chars)} :
    BlankAround(inner, chars)

\* Two texts that differ in the case of their letters at most.
SameButCase(a, b) ==
  /\ Len(a) = Len(b)
  /\ \A i \in 1..Len(a) :
       \/ a[i] = b[i]
       \/ \E k \in 1..26 : {a[i], b[i]} = {UpperChars[k], LowerChars[k]}

\* The call of parseDesignator is done.
Parsed == applied.fn = "parseDesignator" /\ applied.done

\* C33: parseDesignator returns, for a line that after trimming has a colon,
\* a non-empty type and a non-empty value, and whose type is one of ticker,
\* isin, cusip in any case, the type in lower case and the text after the
\* first colon, trimmed and in upper case; otherwise it throws a CliError:
\* for a missing colon first, then an empty type, then an empty value, then an
\* unknown type.
C33_ParseDesignator ==
  Parsed =>
    LET line == WithoutBlanks(applied.arg)
        colons == {i \in 1..Len(line) : line[i] = ":"}
        first == CHOOSE i \in colons : \A j \in colons : i <= j
        typeText == WithoutBlanks(SubSeq(line, 1, first - 1))
        valueText == WithoutBlanks(SubSeq(line, first + 1, Len(line)))
        known == {t \in {<<"t", "i", "c", "k", "e", "r">>, <<"i", "s", "i", "n">>, <<"c", "u", "s", "i", "p">>} : SameButCase(t, typeText)}
    IN IF colons = {}
         THEN ~applied.ok /\ applied.error = "Invalid designator format"
       ELSE IF typeText = <<>>
         THEN ~applied.ok /\ applied.error = "Type is empty"
       ELSE IF valueText = <<>>
         THEN ~applied.ok /\ applied.error = "Value is empty"
       ELSE IF known = {}
         THEN ~applied.ok /\ applied.error = "Unknown designator type"
       ELSE /\ applied.ok
            /\ applied.type \in known
            /\ SameButCase(applied.value, valueText)
            /\ \A i \in 1..Len(applied.value) :
                 IndexOf(LowerChars, applied.value[i]) = 0

\* A line with white space around it, a type in mixed case and a value that
\* holds a colon of its own.
C33_Witness ==
  /\ Parsed /\ applied.ok
  /\ applied.arg[1] = " "
  /\ applied.type = <<"i", "s", "i", "n">>
  /\ applied.value = <<"A", ":", "B">>

\* validateDesignator returned true.
FormatAccepted ==
  applied.fn = "validateDesignator" /\ applied.done /\ applied.ok

\* C39: the format checks of the CLI are at least as strict as the identifier
\* math: a value validateDesignator accepts as a cusip is converted by
\* cusipToIsin without an error, and a value it accepts as an isin is valid
\* for validateIsin or rejected by it with "Invalid check digit" and nothing
\* else.
C39_FormatAtLeastAsStrict ==
  FormatAccepted =>
    /\ applied.type = <<"c", "u", "s", "i", "p">> =>
         /\ cusipToIsin(applied.arg).ok
         /\ Len(cusipToIsin(applied.arg).value) = 12
    /\ applied.type = <<"i", "s", "i", "n">> =>
         /\ validateIsin(applied.arg).ok
         /\ \/ validateIsin(applied.arg).valid
            \/ validateIsin(applied.arg).error = "Invalid check digit"

\* An ISIN of the right format with a wrong check digit.
C39_Witness ==
  /\ FormatAccepted
  /\ applied.type = <<"i", "s", "i", "n">>
  /\ ~validateIsin(applied.arg).valid
  /\ validateIsin(applied.arg).error = "Invalid check digit"

\* C34: ISIN and CUSIP are one-to-one with a Security: in every state of the
\* store that insertSecurity calls lead to, a Security has at most one ISIN
\* row and at most one CUSIP row.
C34_OneIsinOneCusip ==
  \A id \in 1..Len(securities) :
    /\ Cardinality(OwnedRows(identifiers_isin, id)) <= 1
    /\ Cardinality(OwnedRows(identifiers_cusip, id)) <= 1

\* C35: a (ticker, exchange) row is never re-pointed: a pair stored for a
\* Security maps to the same Security id after every later call, whatever
\* ISIN or CUSIP the call carries.
C35_TickerNeverRepointed ==
  Inserted =>
    \A x \in Rows(call.before.identifiers_ticker) :
      TickerOwners(Db, x) = {x.security_id}

\* The pair of the call was stored for one Security, its ISIN for another, and
\* the pair still maps to the first.
C35_Witness ==
  /\ Inserted
  /\ TickerOwners(call.before, call.security) = {call.result}
  /\ IsinOwners(call.before, call.security) \notin {{}, {call.result}}
  /\ CusipOwners(call.before, call.security) = {}
  /\ TickerOwners(Db, call.security) = {call.result}

\* C36: no orphan Security: in every state of the store that insertSecurity
\* calls lead to, every Security row is referenced by a ticker row at least,
\* so that lookupByTicker reaches it.
C36_NoOrphanSecurity ==
  \A id \in 1..Len(securities) : OwnedRows(identifiers_ticker, id) # {}

\* What the call resolves to when its pair is stored, and when its pair is
\* not stored and its ISIN is.
PairOwner == TickerOwners(call.before, call.security)
IsinOwner == IsinOwners(call.before, call.security)

\* C37: an ISIN or CUSIP row that exists changes owner in these cases only:
\* the call's (ticker, exchange) is stored and belongs to another Security
\* than the row's owner, or (a CUSIP row) the pair is not stored and the
\* call's ISIN belongs to another Security than the row's owner.  The row then
\* belongs to the Security the call resolved to; the Security that owned it is
\* still there, with its other rows.
C37_OwnerChanges ==
  Inserted =>
    LET r == call.security
        b == call.before
    IN /\ \A i \in 1..Len(b.identifiers_isin) :
            LET old == b.identifiers_isin[i]
                moves == /\ old.isin = r.isin
                         /\ PairOwner \notin {{}, {old.security_id}}
            IN /\ identifiers_isin[i].isin = old.isin
               /\ identifiers_isin[i].security_id =
                    IF moves THEN call.result ELSE old.security_id
               /\ moves => PairOwner = {call.result}
       /\ \A i \in 1..Len(b.identifiers_cusip) :
            LET old == b.identifiers_cusip[i]
                moves == /\ old.cusip = r.cusip
                         /\ \/ PairOwner \notin {{}, {old.security_id}}
                            \/ /\ PairOwner = {}
                               /\ IsinOwner \notin {{}, {old.security_id}}
            IN /\ identifiers_cusip[i].cusip = old.cusip
               /\ identifiers_cusip[i].security_id =
                    IF moves THEN call.result ELSE old.security_id
               /\ moves => call.result \in PairOwner \cup IsinOwner
       /\ Len(securities) >= Len(b.securities)
       /\ \A i \in 1..Len(b.identifiers_ticker) :
            identifiers_ticker[i].security_id =
              b.identifiers_ticker[i].security_id
       /\ \A i \in 1..Len(b.identifiers_cik) :
            b.identifiers_cik[i].cik # r.cik =>
              identifiers_cik[i] = b.identifiers_cik[i]

\* The pair of the call was not stored; its ISIN belonged to one Security and
\* its CUSIP to another, which has lost the CUSIP row and kept its ticker row.
C37_Witness ==
  /\ Inserted
  /\ PairOwner = {}
  /\ IsinOwner = {call.result}
  /\ CusipOwners(call.before, call.security) \notin {{}, {call.result}}
  /\ CusipOwners(Db, call.security) = {call.result}
  /\ \A id \in CusipOwners(call.before, call.security) :
       /\ id \in 1..Len(securities)
       /\ OwnedRows(identifiers_ticker, id) # {}

\* A step that is a lookup call.
LookupCalled == looked'.op # "none" /\ looked' # looked

\* C38: the lookups are read-only: lookupByTicker, lookupByIsin and
\* lookupByCusip, hit or miss, leave every Security row and every identifier
\* row as it was, timestamps and provenance included, and a lookup repeated
\* with no upsert in between returns what it returned before.
C38_LookupsReadOnly ==
  [][LookupCalled =>
       /\ UNCHANGED <<securities, identifiers_ticker, identifiers_isin,
                      identifiers_cusip, identifiers_cik>>
       /\ (/\ looked.op = looked'.op
           /\ looked.ticker = looked'.ticker
           /\ looked.exchange = looked'.exchange
           /\ looked.isin = looked'.isin
           /\ looked.cusip = looked'.cusip) =>
            looked'.result = looked.result]_vars

\* A lookup by ISIN that hit, on a store two upserts have written.
C38_Witness ==
  /\ looked.op = "lookupByIsin"
  /\ looked.result # NotFound
  /\ ncalls = 2
  /\ looked.result.fetched_at < clock - 1

\* C31: every failure of fetchTickerProfile is an FmpApiError or its subclass
\* FmpRateLimitError, whatever fetch answers: any status, any body, also a
\* 401/403 body whose "Error Message" is not a string and a 200 array of one
\* element that is null or not an object.
C31_AlwaysFmpApiError ==
  fetched.done /\ ~fetched.ok =>
    fetched.name \in {"FmpApiError", "FmpRateLimitError"}

\* The call of fetchTickerProfile had a key that is empty or blank.
BlankKey == fetched.done /\ fetched.apiKey \in {"", " "}

\* C32: with an empty or whitespace-only API key fetchTickerProfile fails with
\* FmpApiError "API key is required", and fetch has not been called.
C32_KeyRequired ==
  BlankKey =>
    /\ ~fetched.ok
    /\ fetched.name = "FmpApiError"
    /\ fetched.message = "API key is required"
    /\ fetched.requests = 0

\* A blank key, while fetch would have answered with a profile.
C32_Witness ==
  /\ BlankKey
  /\ fetched.apiKey = " "
  /\ fetched.answer.status = 200
  /\ fetched.answer.body.kind = "array"
  /\ Len(fetched.answer.body.elements) = 1
  /\ fetched.answer.body.elements[1].profile.symbol = "AAPL"
  /\ fetched.requests = 0

\* ------------------------------------------------------------------ system
Next ==
  \E security \in SecurityData :
    /\ insertSecurity(security)
    /\ UNCHANGED <<looked, output, resolved, applied, fetched, batch>>

Spec == Init /\ [][Next]_vars

\* The store as its callers use it: upserts, also of records without an
\* exchange, and lookups in any order.
StoreNext ==
  \/ \E security \in UncheckedSecurityData :
       /\ insertSecurity(security)
       /\ looked' = NoLookup
       /\ UNCHANGED <<output, resolved, applied, fetched, batch>>
  \/ \E ticker \in LookupTickers, exchange \in Opt(LookupExchanges) :
       CallLookupByTicker(ticker, exchange)
  \/ \E isin \in LookupIsins : CallLookupByIsin(isin)
  \/ \E cusip \in LookupCusips : CallLookupByCusip(cusip)

StoreSpec == Init /\ [][StoreNext]_vars

\* Designators processed one after the other, each to completion, over the
\* runs of main() on one database file: the file outlives the run that fills
\* it, so the API key may differ from one designator to the next.
EngineNext ==
  \/ \E ticker \in QueryTickers, apiKey \in ApiKeys :
       \E answer \in EngineAnswers(ticker) :
         processDesignator("ticker", ticker, apiKey, answer) /\ UNCHANGED batch
  \/ \E isin \in QueryIsins, apiKey \in ApiKeys :
       processDesignator("isin", isin, apiKey, NoAnswer) /\ UNCHANGED batch
  \/ \E cusip \in QueryCusips, apiKey \in ApiKeys :
       processDesignator("cusip", cusip, apiKey, NoAnswer) /\ UNCHANGED batch

EngineSpec == Init /\ [][EngineNext]_vars

\* One run of main() on a new database file: the lines and the API key are
\* fixed when it starts.
BatchInit ==
  /\ securities = <<>>
  /\ identifiers_ticker = <<>>
  /\ identifiers_isin = <<>>
  /\ identifiers_cusip = <<>>
  /\ identifiers_cik = <<>>
  /\ clock = 0
  /\ call = NoCall
  /\ prev = NoCall
  /\ ncalls = 0
  /\ looked = NoLookup
  /\ output = NoOutput
  /\ resolved = {}
  /\ applied = NoMath
  /\ fetched = NoFetch
  /\ batch \in {[NoBatch EXCEPT !.designators = d, !.apiKey = k] :
                  d \in Batches, k \in {"", "test-api-key"}}

BatchNext ==
  \/ MainLoop
  \/ MainExit

BatchSpec == BatchInit /\ [][BatchNext]_vars

\* The run goes on: every await of the loop settles, fetch resolving or
\* rejecting.
FairBatchSpec == BatchSpec /\ WF_vars(BatchNext)

\* One call of fetchTickerProfile, with what fetch will answer if it is called.
FmpInit ==
  /\ securities = <<>>
  /\ identifiers_ticker = <<>>
  /\ identifiers_isin = <<>>
  /\ identifiers_cusip = <<>>
  /\ identifiers_cik = <<>>
  /\ clock = 0
  /\ call = NoCall
  /\ prev = NoCall
  /\ ncalls = 0
  /\ looked = NoLookup
  /\ output = NoOutput
  /\ resolved = {}
  /\ applied = NoMath
  /\ \E ticker \in QueryTickers, apiKey \in ApiKeys :
       \E answer \in FmpAnswers(ticker) :
         fetched = [NoFetch EXCEPT !.ticker = ticker, !.apiKey = apiKey,
                                   !.answer = answer]
  /\ batch = NoBatch

FmpNext == CallFetchTickerProfile

FmpSpec == FmpInit /\ [][FmpNext]_vars

\* One call of a function of cli.ts.
CliInit ==
  /\ securities = <<>>
  /\ identifiers_ticker = <<>>
  /\ identifiers_isin = <<>>
  /\ identifiers_cusip = <<>>
  /\ identifiers_cik = <<>>
  /\ clock = 0
  /\ call = NoCall
  /\ prev = NoCall
  /\ ncalls = 0
  /\ looked = NoLookup
  /\ output = NoOutput
  /\ resolved = {}
  /\ applied \in {[NoMath EXCEPT !.fn = c.fn, !.type = c.type, !.arg = c.arg] :
                    c \in CliCalls}
  /\ fetched = NoFetch
  /\ batch = NoBatch

CliNext ==
  \/ CallParseDesignator
  \/ CallValidateDesignator

CliSpec == CliInit /\ [][CliNext]_vars

\* One call of a function of isin.ts on one string.
MathInit ==
  /\ securities = <<>>
  /\ identifiers_ticker = <<>>
  /\ identifiers_isin = <<>>
  /\ identifiers_cusip = <<>>
  /\ identifiers_cik = <<>>
  /\ clock = 0
  /\ call = NoCall
  /\ prev = NoCall
  /\ ncalls = 0
  /\ looked = NoLookup
  /\ output = NoOutput
  /\ resolved = {}
  /\ applied \in {[NoMath EXCEPT !.fn = c.fn, !.arg = c.arg] : c \in MathCalls}
  /\ fetched = NoFetch
  /\ batch = NoBatch

MathNext ==
  \/ CallComputeIsinCheckDigit
  \/ CallValidateIsin
  \/ CallCusipToIsin

MathSpec == MathInit /\ [][MathNext]_vars

====
